---- MODULE Spec2Model ----
(***************************************************************************)
(* Model of the Argentina SMN integration's polling core:                  *)
(*   SMNTokenManager, ArgentinaSMNData and                                 *)
(*   ArgentinaSMNDataUpdateCoordinator (coordinator.py), the services and  *)
(*   async_unload_entry (__init__.py) and the weather entity's reads       *)
(*   (weather.py).                                                         *)
(*                                                                         *)
(* Time is counted in units of five minutes, so the code's                 *)
(* timedelta(minutes=5) is one unit (Margin).  Every `await` on an HTTP    *)
(* request is a suspension point: a task is either idle, waiting for the   *)
(* token page ("tok") or waiting for an API response ("req"); everything   *)
(* the code does between two suspension points is one atomic step, as on   *)
(* an asyncio event loop.                                                  *)
(*                                                                         *)
(* The content of a snapshot field is abstracted to its provenance:        *)
(* "empty" (the constructor's {} or []), the name of the refresh task      *)
(* whose cycle in progress wrote it, or "old" (written by a cycle that     *)
(* has ended).                                                             *)
(***************************************************************************)
EXTENDS Integers, FiniteSets, Sequences, Bags

\* ------------------------------------------------------------ bounds
MaxTime == 2
MaxLife == 2
MaxDays == 2
MaxEvents == 2
MaxReports == 2
MaxLocations == 2
MaxOffset == 3

\* ------------------------------------------------- program constants
\* timedelta(minutes=5), in time units of five minutes
Margin == 1
\* Python's None for a datetime / exp value
None == -1
COORD_TOLERANCE == 2

\* --------------------------------------------------------- vocabulary
\* "sched": the framework's first refresh and interval refresh;
\* "req": a refresh requested out-of-band (async_request_refresh).
Runners == {"sched", "req"}
\* the callbacks of the proactive-refresh timer that may be running at once
TimerTasks == {"timer", "timer2"}
Procs == Runners \cup {"svc"} \cup TimerTasks
Fields == {"current_weather_data", "daily_forecast", "hourly_forecast",
           "alerts", "heat_warnings"}
Stages == {"loc", "weather", "forecast", "alerts", "heat"}
EMPTY == "empty"
OLD == "old"
\* str | None for _location_id: "null" is None, "None" is str(None)
NoLocation == "null"
NoToken == [set |-> FALSE, exp |-> None]

VARIABLES
    now,               \* dt_util.utcnow()
    token,             \* SMNTokenManager._token: [set, exp claim of its payload]
    token_expiration,  \* SMNTokenManager._token_expiration
    location_id,       \* ArgentinaSMNData._location_id
    data,              \* the five snapshot fields of ArgentinaSMNData
    pc,                \* per task: "idle", "tok" (token page GET in flight)
                       \*   or "req" (API GET in flight)
    stage,             \* per task: the stage it is suspended in
    got,               \* per task: what get_token returned for its GET in
                       \*   flight: "cached" (self._token as stored) or
                       \*   "fetched" (fetch_token's result)
    sent,              \* per refresh task: API requests issued so far in its cycle
    had,               \* per refresh task: fields holding data when its cycle began
    last,              \* the response handled last since a cycle began:
                       \*   [r: refresh task, s: stage, o: outcome]
    result,            \* per refresh task: "none", "running", "ok", "failed"
    timerAt,           \* fire time of the pending _token_refresh_unsub timer, or None
    timers,            \* bag of the fire times of the async_call_later timers
                       \*   pending in the event loop
    refreshLog,        \* what _refresh_token logged last: "none", "ok", "failed"
    entry,             \* config entry: "setup", "retry", "loaded", "unloaded"
    home,              \* hass.config.latitude / longitude: the home location
    coords,            \* ArgentinaSMNData._latitude / _longitude
    upstream,          \* the SMN site: "flaky" (any answer) or "good"
    escaped,           \* exception the last ended update / callback let out
    alerts_data,       \* the argument of a call of _parse_alerts
    parsed,            \* what that call, or the service around it, returned
    alerts,            \* ArgentinaSMNData.alerts as the alert stage stores it
    alert_response,    \* body of the last successful alert response
    call,              \* a call of one of the pure functions: [fn, arg]
    ret,               \* what that call returned or stored
    entries,           \* the config entries of the domain: their coordinates
    flow               \* the last result of the config flow

vars == <<now, token, token_expiration, location_id, data, pc, stage, got,
          sent, had, last, result, timerAt, timers, refreshLog, entry, home,
          coords,
          upstream, escaped, alerts_data, parsed, alerts, alert_response,
          call, ret, entries, flow>>

tokenVars == <<token, token_expiration>>
cycleVars == <<sent, had, last, result>>
placeVars == <<home, coords>>
parseVars == <<alerts_data, parsed>>
storeVars == <<alerts, alert_response>>
callVars == <<call, ret>>
flowVars == <<entries, flow>>
timerVars == <<timerAt, timers>>
coreVars == <<now, token, token_expiration, location_id, data, pc, stage, got,
              sent, had, last, result, timerAt, timers, refreshLog, entry, home,
              coords, upstream, escaped>>

\* ------------------------------------------------------ token manager
\* get_token: the cached token is used iff a token and an expiry are stored
\* and now < expiry - 5 minutes.
TokenValidNoMargin(tok, expn, t) ==
    tok.set /\ expn # None /\ t < expn

TokenValidIfStored(tok, expn, t) == tok.set

TokenValid(tok, expn, t) ==
    tok.set /\ expn # None /\ t < expn - Margin

\* fetch_token, lines 119-131: the expiry stored with a token whose exp claim
\* is e; without an exp claim the previous expiry is left in place.
StoredExpiration(e, expn) == IF e # None THEN e ELSE expn

\* the exp claims the token page may hand out at time t
ExpClaims(t) == {t + d : d \in 0..MaxLife} \cup {None}

\* _schedule_token_refresh: the time of the one-shot timer, or None for none
RefreshAtExpiry(expn, t) ==
    IF expn = None THEN None
    ELSE IF expn <= t THEN None ELSE expn

RefreshAt(expn, t) ==
    IF expn = None THEN None
    ELSE IF expn - Margin <= t THEN None ELSE expn - Margin

\* scheduling without the cancellation
KeptPending(pending, handle) == pending

\* _schedule_token_refresh, 455-457: the timer _token_refresh_unsub refers
\* to is cancelled
Cancelled(pending, handle) ==
    IF handle = None THEN pending ELSE pending (-) SetToBag({handle})

\* async_call_later (491-493): a timer for the instant at joins the pending
\* ones; None: the method returned before
Armed(pending, at) ==
    IF at = None THEN pending ELSE pending (+) SetToBag({at})

\* --------------------------------------------------- upstream responses
\* What a GET can come back with, per stage.  "err" is a transport error, a
\* non-2xx status or a timeout; "shape" is a JSON body of an unexpected type.
\*   loc:      see LocBody
\*   forecast: "ok" (list of records), "badelem" (list whose first element
\*             is not a record)
\*   alerts:   "list", "area" (object with area_id 762), "area0" (object with
\*             area_id 0), "noarea" (object with no or a null area_id)
Outcomes(s) ==
    IF s = "loc" THEN {"id", "locid", "both", "noid", "arr1", "arr2",
                       "arrbad", "empty", "shape", "null", "err"}
    ELSE IF s = "weather" THEN {"ok", "shape", "err"}
    ELSE IF s = "forecast" THEN {"ok", "badelem", "shape", "err"}
    ELSE IF s = "alerts" THEN {"list", "area", "area0", "noarea", "shape", "err"}
    ELSE IF s = "heat" THEN {"ok", "shape", "err"}
    ELSE {"any"}

\* what a healthy site answers: well-formed bodies only
GoodOutcomes(s) ==
    IF s = "loc" THEN {"id", "locid", "both", "arr1", "arr2"}
    ELSE IF s = "weather" THEN {"ok"}
    ELSE IF s = "forecast" THEN {"ok"}
    ELSE IF s = "alerts" THEN {"list", "area", "area0", "noarea"}
    ELSE IF s = "heat" THEN {"ok"}
    ELSE {"any"}

Answers(s, up) == IF up = "good" THEN GoodOutcomes(s) ELSE Outcomes(s)

\* the body _fetch_alerts reads: its JSON kind and, for an object, the
\* value of data.get("area_id") (None when absent or null)
AlertBody(o) ==
    IF o = "list" THEN [kind |-> "list", area_id |-> None]
    ELSE IF o = "area" THEN [kind |-> "object", area_id |-> 762]
    ELSE IF o = "area0" THEN [kind |-> "object", area_id |-> 0]
    ELSE IF o = "noarea" THEN [kind |-> "object", area_id |-> None]
    ELSE IF o = "shape" THEN [kind |-> "scalar", area_id |-> None]
    ELSE [kind |-> "error", area_id |-> None]

\* `if area_id:` - _fetch_heat_warnings is awaited for an object whose
\* area_id is truthy: neither None nor 0
Chains(o) ==
    /\ AlertBody(o).kind = "object"
    /\ AlertBody(o).area_id # None /\ AlertBody(o).area_id # 0

NoResponse == [r |-> "none", s |-> "none", o |-> "none"]

\* The coordinate lookup's responses.  kind is the JSON type of the body
\* ("error" for a transport error, non-2xx status or timeout); len is an
\* array's length and rec says whether its first element is an object; id
\* and location_id are the values under those keys of the object or of the
\* array's first element, "" for a key that is absent.  The second element
\* of the two-element array carries another place's id.
Body(k, n, isrec, i, l) ==
    [kind |-> k, len |-> n, rec |-> isrec, id |-> i, location_id |-> l]

LocBody(o) ==
    IF o = "id" THEN Body("object", 0, TRUE, "4864", "")
    ELSE IF o = "locid" THEN Body("object", 0, TRUE, "", "4865")
    ELSE IF o = "both" THEN Body("object", 0, TRUE, "4864", "4865")
    ELSE IF o = "noid" THEN Body("object", 0, TRUE, "", "")
    ELSE IF o = "arr1" THEN Body("array", 1, TRUE, "4864", "")
    ELSE IF o = "arr2" THEN Body("array", 2, TRUE, "4864", "")
    ELSE IF o = "arrbad" THEN Body("array", 1, FALSE, "", "")
    ELSE IF o = "empty" THEN Body("array", 0, FALSE, "", "")
    ELSE IF o = "shape" THEN Body("scalar", 0, FALSE, "", "")
    ELSE IF o = "null" THEN Body("null", 0, FALSE, "", "")
    ELSE Body("error", 0, FALSE, "", "")

\* _get_location_id raises UpdateFailed for these responses: a transport
\* error, a body that is neither an object nor a non-empty array, and an
\* array whose first element has no .get
LocRaisesOnErrorOnly(o) == LocBody(o).kind = "error"

LocRaises(o) ==
    LET b == LocBody(o)
    IN  \/ b.kind \notin {"object", "array"}
        \/ b.kind = "array" /\ (b.len = 0 \/ ~b.rec)

\* _get_location_id, lines 198-199: the stage fetch_data begins with, given
\* the cached id
FirstStageAlwaysLookup(loc) == "loc"

FirstStage(loc) == IF loc # NoLocation THEN "weather" ELSE "loc"

\* the id _get_location_id caches: str(id) or str(None)
LocationOfIdOnly(o) ==
    LET b == LocBody(o)
    IN  IF b.id # "" THEN b.id ELSE "None"

LocationOf(o) ==
    LET b == LocBody(o)
    IN  IF b.id # "" THEN b.id
        ELSE IF b.location_id # "" THEN b.location_id
        ELSE "None"

\* the snapshot after runner r has handled response o of stage s
WriteClearingOnError(d, r, s, o) ==
    [f \in DOMAIN d |->
        IF s = "weather" /\ f = "current_weather_data"
            THEN (IF o = "ok" THEN r ELSE IF o = "err" THEN EMPTY ELSE d[f])
        ELSE IF s = "forecast" /\ f \in {"daily_forecast", "hourly_forecast"}
            THEN (IF o = "ok" THEN r ELSE IF o \in {"badelem", "err"} THEN EMPTY ELSE d[f])
        ELSE IF s = "alerts" /\ f = "alerts"
            THEN (IF AlertBody(o).kind \in {"list", "object"} THEN r
                  ELSE IF o = "err" THEN EMPTY ELSE d[f])
        ELSE IF s = "heat" /\ f = "heat_warnings"
            THEN (IF o = "ok" THEN r ELSE IF o = "err" THEN EMPTY ELSE d[f])
        ELSE d[f]]

Write(d, r, s, o) ==
    [f \in DOMAIN d |->
        IF s = "weather" /\ f = "current_weather_data"
            THEN (IF o = "ok" THEN r ELSE d[f])
        ELSE IF s = "forecast" /\ f \in {"daily_forecast", "hourly_forecast"}
            THEN (IF o = "ok" THEN r ELSE IF o = "badelem" THEN EMPTY ELSE d[f])
        ELSE IF s = "alerts" /\ f = "alerts"
            THEN (IF AlertBody(o).kind \in {"list", "object"} THEN r ELSE d[f])
        ELSE IF s = "heat" /\ f = "heat_warnings"
            THEN (IF o = "ok" THEN r ELSE d[f])
        ELSE d[f]]

\* a cycle that has ended no longer is "in progress": its writes become OLD
Commit(d, r) == [f \in DOMAIN d |-> IF d[f] = r THEN OLD ELSE d[f]]

\* ---------------------------------------------------------- exceptions
\* the tasks the framework runs: the two refresh tasks, the timer callback
\* and a service call
Tasks == Runners \cup TimerTasks \cup {"svc"}

\* what makes fetch_token fail: raise_for_status or the transport
\* (aiohttp.ClientError), the 10 second timeout, no token in the page
\* (UpdateFailed raised in the try block), or an exp that
\* datetime.fromtimestamp refuses (OverflowError, ValueError)
TokenCauses ==
    {"ClientError", "TimeoutError", "UpdateFailed", "OverflowError"}

\* what makes _get_location_id fail on outcome o
LocCauses(o) ==
    IF LocBody(o).kind = "error"
        THEN {"ClientError", "TimeoutError", "ValueError"}
    ELSE IF LocBody(o).kind = "array" /\ LocBody(o).len > 0
        THEN {"AttributeError"}
    ELSE {"UpdateFailed"}

Propagate(e) == e

\* fetch_token: both except clauses raise UpdateFailed
fetch_token_raises(c) == "UpdateFailed"

\* _get_location_id: both except clauses raise UpdateFailed
get_location_id_raises(c) == "UpdateFailed"

\* _fetch_alerts: `except Exception` logs what the chained
\* _fetch_heat_warnings raised and returns
fetch_alerts_raises(e) == "none"

\* fetch_data: `except Exception` raises UpdateFailed
fetch_data_raises(e) == IF e = "none" THEN "none" ELSE "UpdateFailed"

\* _async_update_data has no handler of its own
async_update_data_raises(e) == e

\* _refresh_token: `except Exception` logs and returns
refresh_token_raises(e) == "none"

\* -------------------------------------------------------- alert parsing
\* ALERT_EVENT_MAP: event id -> event name
ALERT_EVENT_MAP == [i \in {37, 41} |-> IF i = 37 THEN "lluvia" ELSE "tormenta"]

\* ALERT_LEVEL_MAP: level -> name, color and severity tag
ALERT_LEVEL_MAP ==
    [l \in 1..3 |->
        [name     |-> IF l = 1 THEN "level_1" ELSE IF l = 2 THEN "level_2"
                      ELSE "level_3",
         color    |-> IF l = 1 THEN "color_1" ELSE IF l = 2 THEN "color_2"
                      ELSE "color_3",
         severity |-> IF l = 1 THEN "info" ELSE IF l = 2 THEN "watch"
                      ELSE "warning"]]

\* the events a bundle may carry: ids in and out of the vocabulary; levels
\* in and out of the table, None for an event without a max_level key
EventIds == {41, 99}
LevelValues == {None, 1, 2, 3, 9}
Events == [id : EventIds, max_level : LevelValues]
Days == UNION {[1..n -> Events] : n \in 0..MaxEvents}

\* the days after the current one are never read: it is enough that they
\* can hold an event that would count and one that would not
LaterEvents == {[id |-> 41, max_level |-> 3], [id |-> 99, max_level |-> 1]}
LaterDays == UNION {[1..n -> LaterEvents] : n \in 0..MaxEvents}

\* the arguments of _parse_alerts: None, a list, an empty dict, or a dict
\* with an area_id and the warnings w
Bundle(k, w) ==
    [kind |-> k, warnings |-> w, reports |-> <<>>,
     area_id |-> IF k = "dict" THEN 762 ELSE None]
IsBundle(b) ==
    \/ \E k \in {"none", "list", "emptydict"} : b = Bundle(k, <<>>)
    \/ b = Bundle("dict", <<>>)
    \/ \E n \in 1..MaxDays : \E d \in Days : \E w \in [1..(n - 1) -> LaterDays] :
          b = Bundle("dict", <<d>> \o w)

\* str() of a non-negative integer, as the f-string formats the id
Digit(d) ==
    CASE d = 0 -> "0" [] d = 1 -> "1" [] d = 2 -> "2" [] d = 3 -> "3"
      [] d = 4 -> "4" [] d = 5 -> "5" [] d = 6 -> "6" [] d = 7 -> "7"
      [] d = 8 -> "8" [] OTHER -> "9"

RECURSIVE Str(_)
Str(n) == IF n < 10 THEN Digit(n) ELSE Str(n \div 10) \o Digit(n % 10)

\* ALERT_EVENT_MAP.get(event_id, f"unknown_{event_id}")
EventName(id) ==
    IF id \in DOMAIN ALERT_EVENT_MAP THEN ALERT_EVENT_MAP[id]
    ELSE "unknown_" \o Str(id)

\* ALERT_LEVEL_MAP.get(level, ALERT_LEVEL_MAP[1])
LevelInfo(l) ==
    IF l \in DOMAIN ALERT_LEVEL_MAP THEN ALERT_LEVEL_MAP[l]
    ELSE ALERT_LEVEL_MAP[1]

\* event.get("max_level", 1)
EventLevel(ev) == IF ev.max_level = None THEN 1 ELSE ev.max_level

SkippedBelowOne(l) == l < 1

\* `if max_level <= 1: continue`
Skipped(l) == l <= 1

Latest(a, b) == b

\* max(max_severity_level, max_level)
Max(a, b) == IF a >= b THEN a ELSE b

\* A report is [event_id, levels], levels being the list of the level
\* numbers of its entries; the description and the instruction of an entry
\* are its own, written <<i, j>> for entry j of report i, and <<>> is null.
NoText == <<>>
ReportLevels == UNION {[1..n -> {2, 3}] : n \in 0..MaxReports}
Reports == [event_id : EventIds, levels : ReportLevels]
ReportLists == UNION {[1..n -> Reports] : n \in 0..MaxReports}

\* the inner loop: the first entry of levels, from position j on, whose
\* level is l; 0 when there is none
RECURSIVE FirstLevel(_, _, _)
FirstLevel(levels, j, l) ==
    IF j > Len(levels) THEN 0
    ELSE IF levels[j] = l THEN j
    ELSE FirstLevel(levels, j + 1, l)

\* what the loop body leaves in description / instruction: `break` ends the
\* inner loop only, so a later report's match is assigned over an earlier one
Assigned(found, new) == new

\* the outer loop over reports, from report i on
RECURSIVE FindText(_, _, _, _)
FindText(reports, i, ev, found) ==
    IF i > Len(reports) THEN found
    ELSE LET j == IF reports[i].event_id = ev.id
                  THEN FirstLevel(reports[i].levels, 1, EventLevel(ev))
                  ELSE 0
         IN  FindText(reports, i + 1, ev,
                      IF j = 0 THEN found ELSE Assigned(found, <<i, j>>))

\* the entry appended to active_alerts for an event
AlertEntry(ev, reports) ==
    [event_id   |-> ev.id,
     event_name |-> EventName(ev.id),
     max_level  |-> EventLevel(ev),
     level_name |-> LevelInfo(EventLevel(ev)).name,
     color      |-> LevelInfo(EventLevel(ev)).color,
     severity   |-> LevelInfo(EventLevel(ev)).severity,
     description |-> FindText(reports, 1, ev, NoText),
     instruction |-> FindText(reports, 1, ev, NoText)]

\* the loop over the current day's events: acc is
\* [active_alerts, max_severity_level] so far
RECURSIVE ScanEvents(_, _, _)
ScanEvents(events, reports, acc) ==
    IF events = <<>> THEN acc
    ELSE LET ev == Head(events)
         IN  ScanEvents(Tail(events), reports,
                IF Skipped(EventLevel(ev)) THEN acc
                ELSE [active_alerts |-> Append(acc.active_alerts,
                                              AlertEntry(ev, reports)),
                      max_severity_level |->
                          Max(acc.max_severity_level, EventLevel(ev))])

\* _parse_alerts; max_level None: the returned dict has no max_level key
\* the keys of the dict returned by the early return and by the services'
\* defaults, and of the dict returned at the end of _parse_alerts
DefaultKeys == {"active_alerts", "max_severity", "area_id"}
ParsedKeys ==
    {"active_alerts", "max_severity", "max_level", "area_id", "updated"}

parse_alerts(b) ==
    IF b.kind # "dict"
    THEN [active_alerts |-> <<>>, max_severity |-> "info", max_level |-> None,
          area_id |-> None, keys |-> DefaultKeys]
    ELSE LET events == IF Len(b.warnings) > 0 THEN b.warnings[1] ELSE <<>>
             r == ScanEvents(events, b.reports,
                      [active_alerts |-> <<>>, max_severity_level |-> 1])
         IN  [active_alerts |-> r.active_alerts,
              max_severity  |-> LevelInfo(r.max_severity_level).severity,
              max_level     |-> r.max_severity_level,
              area_id       |-> b.area_id,
              keys          |-> ParsedKeys]

\* no call of _parse_alerts has returned
Unparsed ==
    [active_alerts |-> <<>>, max_severity |-> "none", max_level |-> None,
     area_id |-> None, keys |-> {}]

\* ------------------------------------------------- the get_alerts service
\* a JSON list, and what is neither list nor object / no 200 response
ListOf(items) == [kind |-> "list", items |-> items]
NoBody == [kind |-> "error"]

\* the bodies of alert responses: a bundle for any current day, an empty
\* object, a list (empty, or of one bundle), a scalar, or no body
AlertBodies ==
    {Bundle("dict", <<d>>) : d \in Days}
        \cup {Bundle("emptydict", <<>>), ListOf(<<>>),
              ListOf(<<Bundle("dict", <<>>)>>), [kind |-> "scalar"], NoBody}

\* _fetch_alerts: a list is stored as it is, an object as a one-element list
store_alerts(old, body) ==
    IF body.kind = "list" THEN body
    ELSE IF body.kind \in {"dict", "emptydict"} THEN ListOf(<<body>>)
    ELSE old

\* the dict the services return when there is nothing to parse
ServiceDefault ==
    [active_alerts |-> <<>>, max_severity |-> "info", max_level |-> None,
     area_id |-> None, keys |-> DefaultKeys]

\* handle_get_alerts: id is the config_entry_id of the call ("none" when
\* left out), loaded says whether hass.data[DOMAIN] holds the entry;
\* a coordinator is found for the entry's own id or for none given
handle_get_alerts(id, loaded, stored) ==
    IF loaded /\ id \in {"none", "known"} THEN parse_alerts(stored)
    ELSE ServiceDefault

Reraise(e) == e

\* handle_get_alerts_for_location / handle_search_location: `except
\* Exception` turns whatever the try block raised into a result
service_raises(e) == "none"

\* what such a service returns when its try block raised e ("none": it did
\* not): on a failure its empty default together with an error field
service_returns(e) ==
    [fn |-> "service", raised |-> e, error |-> e # "none",
     default |-> e # "none"]

\* ----------------------------------------------------------- initial state
\* The state after the coordinator's construction; F is the set of
\* snapshot fields whose content is followed.
Constructed(F) ==
    /\ now = 0
    /\ token = NoToken
    /\ token_expiration = None
    /\ location_id = NoLocation
    /\ data = [f \in F |-> EMPTY]
    /\ pc = [p \in Procs |-> "idle"]
    /\ stage = [p \in Procs |-> "none"]
    /\ got = [p \in Procs |-> "none"]
    /\ sent = [r \in Runners |-> {}]
    /\ had = [r \in Runners |-> {}]
    /\ last = NoResponse
    /\ result = [r \in Runners |-> "none"]
    /\ timerAt = None
    /\ timers = EmptyBag
    /\ refreshLog = "none"
    /\ entry = "setup"
    /\ home = "A"
    /\ coords = home
    /\ upstream = "flaky"
    /\ escaped = [p \in Tasks |-> "none"]
    /\ alerts = ListOf(<<>>)
    /\ alert_response = NoBody
    /\ entries = {}
    /\ flow = [type |-> "none", errors |-> "none", input |-> <<>>,
               lookup |-> "none"]

\* no pure function has been called
NoCall == [fn |-> "none"]
NoRet == [fn |-> "none"]
NoCalls == call = NoCall /\ ret = NoRet

InitWith(F) ==
    /\ Constructed(F)
    /\ NoCalls
    /\ alerts_data = Bundle("none", <<>>)
    /\ parsed = Unparsed

Init == InitWith(Fields)

\* ------------------------------------------------------------- helpers
\* get_token returned (how: "cached" or "fetched") and task p's GET for
\* stage s goes out; it is in flight until p handles the answer
Send(p, s, how, sb) ==
    /\ pc' = [pc EXCEPT ![p] = "req"]
    /\ stage' = [stage EXCEPT ![p] = s]
    /\ got' = [got EXCEPT ![p] = how]
    /\ sent' = IF p \in Runners THEN [sent EXCEPT ![p] = sb \cup {s}] ELSE sent

\* _get_headers -> get_token, then the stage's GET: task p begins stage s
\* having already issued the requests sb.  With a valid cached token the GET
\* goes out at once; otherwise fetch_token's GET of the token page goes out.
Enter(p, s, sb) ==
    IF TokenValid(token, token_expiration, now)
    THEN Send(p, s, "cached", sb)
    ELSE /\ pc' = [pc EXCEPT ![p] = "tok"]
         /\ stage' = [stage EXCEPT ![p] = s]
         /\ got' = [got EXCEPT ![p] = "none"]
         /\ sent' = IF p \in Runners THEN [sent EXCEPT ![p] = sb] ELSE sent

\* fetch_data returns (ok) or raises UpdateFailed; on return
\* _async_update_data calls _schedule_token_refresh.  d is the snapshot the
\* cycle leaves behind.
Finish(r, d, o, ok, e) ==
    /\ pc' = [pc EXCEPT ![r] = "idle"]
    /\ stage' = [stage EXCEPT ![r] = "none"]
    /\ got' = [got EXCEPT ![r] = "none"]
    /\ sent' = [sent EXCEPT ![r] = {}]
    /\ had' = [had EXCEPT ![r] = {}]
    /\ last' = IF o = "token" THEN last ELSE [r |-> r, s |-> stage[r], o |-> o]
    /\ result' = [result EXCEPT ![r] = IF ok THEN "ok" ELSE "failed"]
    /\ data' = Commit(d, r)
    /\ timerAt' = IF ok THEN RefreshAt(token_expiration, now) ELSE timerAt
    /\ timers' = IF ok THEN Armed(Cancelled(timers, timerAt), timerAt')
                 ELSE timers
    /\ entry' = IF entry = "setup" THEN (IF ok THEN "loaded" ELSE "retry")
                ELSE entry
    /\ escaped' = [escaped EXCEPT
                      ![r] = async_update_data_raises(fetch_data_raises(e))]

\* a stage's response has been handled and the cycle goes on with stage s
Continue(r, s, o) ==
    /\ Enter(r, s, sent[r])
    /\ last' = [r |-> r, s |-> stage[r], o |-> o]
    /\ UNCHANGED <<had, result, timerVars, entry, escaped>>

\* ------------------------------------------------------ refresh cycles
\* The framework calls _async_update_data -> fetch_data.  The coordinator
\* adds no guard of its own: a task starts a cycle whenever it is idle,
\* whatever the other task is doing.  Before the entry is set up only the
\* first refresh runs.  fetch_data starts with _get_location_id, which
\* returns the cached id if there is one.
Trigger(r) ==
    /\ pc[r] = "idle"
    /\ entry = "loaded" \/ (entry = "setup" /\ r = "sched")
    /\ result' = [result EXCEPT ![r] = "running"]
    /\ had' = [had EXCEPT ![r] = {f \in DOMAIN data : data[f] # EMPTY}]
    /\ last' = NoResponse
    /\ Enter(r, FirstStage(location_id), {})
    /\ UNCHANGED <<now, tokenVars, location_id, data, timerVars,
                   refreshLog, entry>>
    /\ UNCHANGED placeVars
    /\ UNCHANGED upstream
    /\ escaped' = [escaped EXCEPT ![r] = "none"]
    /\ UNCHANGED <<parseVars, storeVars, callVars, flowVars>>

\* fetch_token succeeds for a caller of get_token (a refresh task or a
\* service): the token and its expiry are stored, the caller's GET goes out.
CallerTokenOk(p) ==
    /\ p \in Runners \cup {"svc"}
    /\ pc[p] = "tok"
    /\ \E e \in ExpClaims(now) :
        /\ token' = [set |-> TRUE, exp |-> e]
        /\ token_expiration' = StoredExpiration(e, token_expiration)
    /\ Send(p, stage[p], "fetched", IF p \in Runners THEN sent[p] ELSE {})
    /\ UNCHANGED <<now, location_id, data, had, last, result, timerVars,
                   refreshLog, entry>>
    /\ UNCHANGED placeVars
    /\ UNCHANGED upstream
    /\ UNCHANGED escaped
    /\ UNCHANGED <<parseVars, storeVars, callVars, flowVars>>

\* fetch_token raises UpdateFailed inside a cycle.  _get_headers re-raises;
\* the call sits outside every stage's try block, so fetch_data fails,
\* except in _fetch_heat_warnings, which _fetch_alerts calls inside its own
\* try block: there the error is swallowed and the cycle ends normally.
RunnerTokenFail(r) ==
    /\ r \in Runners
    /\ pc[r] = "tok"
    /\ upstream = "flaky"
    /\ \E c \in TokenCauses :
        Finish(r, data, "token", stage[r] = "heat",
               IF stage[r] = "heat"
               THEN fetch_alerts_raises(fetch_token_raises(c))
               ELSE fetch_token_raises(c))
    /\ UNCHANGED <<now, tokenVars, location_id, refreshLog>>
    /\ UNCHANGED placeVars
    /\ UNCHANGED upstream
    /\ UNCHANGED <<parseVars, storeVars, callVars, flowVars>>

\* _get_location_id's response
LocResp(r) ==
    /\ pc[r] = "req" /\ stage[r] = "loc"
    /\ \E o \in Answers("loc", upstream) :
        IF LocRaises(o)
        THEN /\ location_id' = location_id
             /\ \E c \in LocCauses(o) :
                    Finish(r, data, o, FALSE, get_location_id_raises(c))
        ELSE /\ location_id' = LocationOf(o)
             /\ Continue(r, "weather", o)
             /\ data' = data
    /\ UNCHANGED <<now, tokenVars, refreshLog>>
    /\ UNCHANGED placeVars
    /\ UNCHANGED upstream
    /\ UNCHANGED <<parseVars, storeVars, callVars, flowVars>>

\* _fetch_current_weather's response, then _fetch_forecast begins
WeatherResp(r) ==
    /\ pc[r] = "req" /\ stage[r] = "weather"
    /\ \E o \in Answers("weather", upstream) :
        /\ data' = Write(data, r, "weather", o)
        /\ Continue(r, "forecast", o)
    /\ UNCHANGED <<now, tokenVars, location_id, refreshLog>>
    /\ UNCHANGED placeVars
    /\ UNCHANGED upstream
    /\ UNCHANGED <<parseVars, storeVars, callVars, flowVars>>

\* _fetch_forecast's response, then _fetch_alerts begins
ForecastResp(r) ==
    /\ pc[r] = "req" /\ stage[r] = "forecast"
    /\ \E o \in Answers("forecast", upstream) :
        /\ data' = Write(data, r, "forecast", o)
        /\ Continue(r, "alerts", o)
    /\ UNCHANGED <<now, tokenVars, location_id, refreshLog>>
    /\ UNCHANGED placeVars
    /\ UNCHANGED upstream
    /\ UNCHANGED <<parseVars, storeVars, callVars, flowVars>>

\* _fetch_alerts' response: an object with an area_id chains
\* _fetch_heat_warnings, anything else ends the cycle
AlertsResp(r) ==
    /\ pc[r] = "req" /\ stage[r] = "alerts"
    /\ \E o \in Answers("alerts", upstream) :
        IF Chains(o)
        THEN /\ data' = Write(data, r, "alerts", o)
             /\ Continue(r, "heat", o)
        ELSE Finish(r, Write(data, r, "alerts", o), o, TRUE, "none")
    /\ UNCHANGED <<now, tokenVars, location_id, refreshLog>>
    /\ UNCHANGED placeVars
    /\ UNCHANGED upstream
    /\ UNCHANGED <<parseVars, storeVars, callVars, flowVars>>

\* _fetch_heat_warnings' response ends the cycle
HeatResp(r) ==
    /\ pc[r] = "req" /\ stage[r] = "heat"
    /\ \E o \in Answers("heat", upstream) :
        Finish(r, Write(data, r, "heat", o), o, TRUE, "none")
    /\ UNCHANGED <<now, tokenVars, location_id, refreshLog>>
    /\ UNCHANGED placeVars
    /\ UNCHANGED upstream
    /\ UNCHANGED <<parseVars, storeVars, callVars, flowVars>>

\* --------------------------------------------------- proactive refresh
\* a pending async_call_later timer comes due and its callback
\* _refresh_token, run as task p, calls fetch_token; the timer is one-shot
TimerFire(p) ==
    /\ BagIn(now, timers)
    /\ pc[p] = "idle"
    /\ timers' = timers (-) SetToBag({now})
    /\ timerAt' = IF timerAt = now THEN None ELSE timerAt
    /\ pc' = [pc EXCEPT ![p] = "tok"]
    /\ stage' = [stage EXCEPT ![p] = "refresh"]
    /\ UNCHANGED <<now, tokenVars, location_id, data, got, cycleVars,
                   refreshLog, entry>>
    /\ UNCHANGED placeVars
    /\ UNCHANGED upstream
    /\ UNCHANGED escaped
    /\ UNCHANGED <<parseVars, storeVars, callVars, flowVars>>

\* _refresh_token: fetch_token returned, _schedule_token_refresh follows
TimerTokenOk(p) ==
    /\ p \in TimerTasks
    /\ pc[p] = "tok"
    /\ \E e \in ExpClaims(now) :
        /\ token' = [set |-> TRUE, exp |-> e]
        /\ token_expiration' = StoredExpiration(e, token_expiration)
    /\ timerAt' = RefreshAt(token_expiration', now)
    /\ timers' = Armed(Cancelled(timers, timerAt), timerAt')
    /\ refreshLog' = "ok"
    /\ escaped' = [escaped EXCEPT ![p] = "none"]
    /\ pc' = [pc EXCEPT ![p] = "idle"]
    /\ stage' = [stage EXCEPT ![p] = "none"]
    /\ UNCHANGED <<now, location_id, data, got, cycleVars, entry>>
    /\ UNCHANGED placeVars
    /\ UNCHANGED upstream
    /\ UNCHANGED <<parseVars, storeVars, callVars, flowVars>>

\* _refresh_token: fetch_token raised, the error is logged
TimerTokenFail(p) ==
    /\ p \in TimerTasks
    /\ pc[p] = "tok"
    /\ upstream = "flaky"
    /\ refreshLog' = "failed"
    /\ \E c \in TokenCauses :
        escaped' = [escaped EXCEPT
                       ![p] = refresh_token_raises(fetch_token_raises(c))]
    /\ pc' = [pc EXCEPT ![p] = "idle"]
    /\ stage' = [stage EXCEPT ![p] = "none"]
    /\ UNCHANGED <<now, tokenVars, location_id, data, got, cycleVars,
                   timerVars, entry>>
    /\ UNCHANGED placeVars
    /\ UNCHANGED upstream
    /\ UNCHANGED <<parseVars, storeVars, callVars, flowVars>>

\* ------------------------------------------------------------ services
\* get_alerts_for_location / search_location: get_token, then one GET
SvcCall ==
    /\ entry = "loaded"
    /\ pc["svc"] = "idle"
    /\ Enter("svc", "svc", {})
    /\ UNCHANGED <<now, tokenVars, location_id, data, had, last, result,
                   timerVars, refreshLog, entry>>
    /\ UNCHANGED placeVars
    /\ UNCHANGED upstream
    /\ escaped' = [escaped EXCEPT !["svc"] = "none"]
    /\ ret' = NoRet
    /\ UNCHANGED <<parseVars, storeVars, call, flowVars>>

\* get_token raised: the service returns its default with an error field
SvcTokenFail ==
    /\ pc["svc"] = "tok"
    /\ upstream = "flaky"
    /\ pc' = [pc EXCEPT !["svc"] = "idle"]
    /\ stage' = [stage EXCEPT !["svc"] = "none"]
    /\ UNCHANGED <<now, tokenVars, location_id, data, got, cycleVars,
                   timerVars, refreshLog, entry>>
    /\ UNCHANGED placeVars
    /\ UNCHANGED upstream
    /\ \E c \in TokenCauses :
        /\ escaped' = [escaped EXCEPT
                          !["svc"] = service_raises(fetch_token_raises(c))]
        /\ ret' = service_returns(fetch_token_raises(c))
    /\ UNCHANGED <<parseVars, storeVars, call, flowVars>>

\* the service's GET came back (or failed): it returns a result
SvcResp ==
    /\ pc["svc"] = "req"
    /\ pc' = [pc EXCEPT !["svc"] = "idle"]
    /\ stage' = [stage EXCEPT !["svc"] = "none"]
    /\ got' = [got EXCEPT !["svc"] = "none"]
    /\ UNCHANGED <<now, tokenVars, location_id, data, cycleVars, timerVars,
                   refreshLog, entry>>
    /\ UNCHANGED placeVars
    /\ UNCHANGED upstream
    /\ \E c \in {"none", "ClientError", "ValueError"} :
        /\ escaped' = [escaped EXCEPT !["svc"] = service_raises(c)]
        /\ ret' = service_returns(c)
    /\ UNCHANGED <<parseVars, storeVars, call, flowVars>>

\* ------------------------------------------------------------ the entry
\* async_unload_entry: the coordinator is dropped from hass.data
Unload ==
    /\ entry = "loaded"
    /\ entry' = "unloaded"
    /\ UNCHANGED <<now, tokenVars, location_id, data, pc, stage, got,
                   cycleVars, timerVars, refreshLog>>
    /\ UNCHANGED placeVars
    /\ UNCHANGED upstream
    /\ UNCHANGED escaped
    /\ UNCHANGED <<parseVars, storeVars, callVars, flowVars>>

\* the first refresh failed: async_setup_entry raised, and the framework's
\* retry constructs a new coordinator
SetupRetry ==
    /\ entry = "retry"
    /\ entry' = "setup"
    /\ token' = NoToken
    /\ token_expiration' = None
    /\ location_id' = NoLocation
    /\ data' = [f \in DOMAIN data |-> EMPTY]
    /\ result' = [r \in Runners |-> "none"]
    /\ timerAt' = None
    /\ timers' = EmptyBag
    /\ refreshLog' = "none"
    /\ last' = NoResponse
    /\ coords' = home
    /\ UNCHANGED <<now, pc, stage, got, sent, had, home>>
    /\ UNCHANGED upstream
    /\ escaped' = [p \in Tasks |-> "none"]
    /\ UNCHANGED <<parseVars, storeVars, callVars, flowVars>>

\* the user moves the home location (hass.config is updated).  For an entry
\* that tracks home, track_home_location has subscribed nothing to the
\* update, so the coordinator's state stays as it is.
HomeMoves ==
    /\ entry = "loaded"
    /\ home = "A"
    /\ home' = "B"
    /\ UNCHANGED <<now, tokenVars, location_id, data, pc, stage, got, cycleVars,
                   timerVars, refreshLog, entry, coords>>
    /\ UNCHANGED upstream
    /\ UNCHANGED escaped
    /\ UNCHANGED <<parseVars, storeVars, callVars, flowVars>>

\* handle_home_location_update, the handler track_home_location defines and
\* never registers: no event reaches it, so it is no part of any
\* next-state relation.
handle_home_location_update ==
    /\ entry = "loaded"
    /\ pc["req"] = "idle"
    /\ coords' = home
    /\ location_id' = NoLocation
    /\ result' = [result EXCEPT !["req"] = "running"]
    /\ had' = [had EXCEPT !["req"] = {f \in DOMAIN data : data[f] # EMPTY}]
    /\ last' = NoResponse
    /\ Enter("req", "loc", {})
    /\ UNCHANGED <<now, tokenVars, data, timerVars, refreshLog, entry, home>>
    /\ UNCHANGED upstream
    /\ UNCHANGED escaped
    /\ UNCHANGED <<parseVars, storeVars, callVars, flowVars>>

\* the SMN site recovers: from now on the token page and the API answer
\* correctly
Heal ==
    /\ upstream = "flaky"
    /\ upstream' = "good"
    /\ UNCHANGED <<now, tokenVars, location_id, data, pc, stage, got, cycleVars,
                   timerVars, refreshLog, entry, placeVars, escaped>>
    /\ UNCHANGED <<parseVars, storeVars, callVars, flowVars>>

\* time passes; a due timer fires before the clock moves on
Tick ==
    /\ now < MaxTime
    /\ ~BagIn(now, timers)
    /\ now' = now + 1
    /\ UNCHANGED <<tokenVars, location_id, data, pc, stage, got,
                   cycleVars, timerVars, refreshLog, entry>>
    /\ UNCHANGED placeVars
    /\ UNCHANGED upstream
    /\ UNCHANGED escaped
    /\ UNCHANGED <<parseVars, storeVars, callVars, flowVars>>

\* The interval refresh is re-armed only when a cycle has returned, so on
\* its own the "sched" task never overlaps itself.
Cycle ==
    \/ Trigger("sched")
    \/ \E r \in Runners : CallerTokenOk(r)
    \/ \E r \in Runners : RunnerTokenFail(r)
    \/ \E r \in Runners : LocResp(r)
    \/ \E r \in Runners : WeatherResp(r)
    \/ \E r \in Runners : ForecastResp(r)
    \/ \E r \in Runners : AlertsResp(r)
    \/ \E r \in Runners : HeatResp(r)

Refresher ==
    \/ TimerFire("timer")
    \/ TimerTokenOk("timer")
    \/ TimerTokenFail("timer")

Services ==
    \/ SvcCall
    \/ CallerTokenOk("svc")
    \/ SvcTokenFail
    \/ SvcResp

\* The coordinator of one config entry: refresh cycles, the proactive
\* refresh and the entry's life cycle, with all five snapshot fields.
Next ==
    \/ Cycle
    \/ Refresher
    \/ Unload
    \/ SetupRetry
    \/ Tick

Spec == Init /\ [][Next]_vars

\* The same with the get_alerts_for_location and search_location services
\* calling get_token; the services never touch the snapshot, whose content
\* is not followed here.
NextServices ==
    \/ Cycle
    \/ Refresher
    \/ Services
    \/ Unload
    \/ SetupRetry
    \/ Tick

SpecServices == InitWith({}) /\ [][NextServices]_vars

\* Refresh cycles and service calls of a loaded entry, following the alerts
\* and the weather of the snapshot.
ServedFields == {"current_weather_data", "alerts"}

NextServed ==
    \/ Cycle
    \/ Services
    \/ SetupRetry
    \/ Tick

SpecServed == InitWith(ServedFields) /\ [][NextServed]_vars

\* Refresh cycles and the proactive refresh of an entry that tracks the home
\* location, with refreshes requested out-of-band (the "req" task) besides
\* the interval refresh, and the home location moving.
NextOverlap ==
    \/ Cycle
    \/ Trigger("req")
    \/ HomeMoves
    \/ Refresher
    \/ SetupRetry
    \/ Tick

SpecOverlap == InitWith({}) /\ [][NextOverlap]_vars

\* Refresh cycles and the proactive refresh, with every firing of a timer
\* running _refresh_token as a task of its own, so that a callback can be
\* suspended inside fetch_token while a cycle completes or a later timer
\* fires.
NextTimers ==
    \/ Cycle
    \/ \E p \in TimerTasks : TimerFire(p)
    \/ \E p \in TimerTasks : TimerTokenOk(p)
    \/ \E p \in TimerTasks : TimerTokenFail(p)
    \/ SetupRetry
    \/ Tick

SpecTimers == InitWith({}) /\ [][NextTimers]_vars

\* Refresh cycles and the proactive refresh of an entry that stays loaded,
\* with a site that recovers for good.  The interval timer keeps triggering
\* cycles, the framework retries a failed setup, every GET returns (each
\* runs under a 10 second timeout) and the site does recover.
NextRecovery ==
    \/ Cycle
    \/ Refresher
    \/ SetupRetry
    \/ Heal
    \/ Tick

RecoveryFields == {"daily_forecast", "hourly_forecast"}

SpecRecovery ==
    /\ InitWith(RecoveryFields) /\ [][NextRecovery]_vars
    /\ WF_vars(Cycle) /\ WF_vars(SetupRetry) /\ WF_vars(Heal)

\* _parse_alerts applied to any bundle: the state after a call is the
\* argument together with what was returned.
InitParse ==
    /\ Constructed({})
    /\ NoCalls
    /\ IsBundle(alerts_data)
    /\ parsed = Unparsed

ParseAlerts ==
    /\ parsed = Unparsed
    /\ parsed' = parse_alerts(alerts_data)
    /\ UNCHANGED <<now, tokenVars, location_id, data, pc, stage, got, cycleVars,
                   timerVars, refreshLog, entry, placeVars, upstream, escaped,
                   alerts_data, storeVars, callVars, flowVars>>

NextParse == ParseAlerts

\* The alert stage of the refresh cycles and the get_alerts service.  parsed
\* is the result of a call made since the alert stage last ran, and
\* alerts_data what that call passed to _parse_alerts.
NotCalled == [kind |-> "nocall"]

StoreAlerts ==
    /\ \E body \in AlertBodies :
        /\ alerts' = store_alerts(alerts, body)
        /\ alert_response' = IF body.kind \in {"list", "dict", "emptydict"}
                             THEN body ELSE alert_response
    /\ alerts_data' = NotCalled
    /\ parsed' = Unparsed
    /\ UNCHANGED <<now, tokenVars, location_id, data, pc, stage, got, cycleVars,
                   timerVars, refreshLog, entry, placeVars, upstream, escaped,
                   callVars, flowVars>>

GetAlerts ==
    /\ \E id \in {"none", "known", "unknown"} : \E loaded \in BOOLEAN :
        /\ parsed' = handle_get_alerts(id, loaded, alerts)
        /\ alerts_data' = IF loaded /\ id \in {"none", "known"} THEN alerts
                          ELSE NotCalled
    /\ UNCHANGED <<now, tokenVars, location_id, data, pc, stage, got, cycleVars,
                   timerVars, refreshLog, entry, placeVars, upstream, escaped,
                   storeVars, callVars, flowVars>>

NextGetAlerts == StoreAlerts \/ GetAlerts

InitGetAlerts ==
    /\ Constructed({})
    /\ NoCalls
    /\ alerts_data = NotCalled
    /\ parsed = Unparsed

SpecGetAlerts == InitGetAlerts /\ [][NextGetAlerts]_vars

\* _parse_alerts applied to bundles of one day with reports
ReportedEvents ==
    {[id |-> 41, max_level |-> 2], [id |-> 41, max_level |-> 3],
     [id |-> 99, max_level |-> 2]}

InitReports ==
    /\ Constructed({})
    /\ NoCalls
    /\ \E n \in 1..MaxEvents : \E d \in [1..n -> ReportedEvents] :
        \E rp \in ReportLists :
            alerts_data = [Bundle("dict", <<d>>) EXCEPT !.reports = rp]
    /\ parsed = Unparsed

SpecReports == InitReports /\ [][NextParse]_vars

SpecParse == InitParse /\ [][NextParse]_vars

\* --------------------------------------------------- forecast expansion
\* _fetch_forecast on a list of day records.  A day is [date, periods]:
\* periods[k] says what the day holds for period k: "null", "missing" (no
\* such key), "empty" (an object without members) or "data".
Periods == <<"early_morning", "morning", "afternoon", "night">>
PeriodTimes == <<"00:00", "06:00", "12:00", "18:00">>
PeriodValues == {"null", "missing", "empty", "data"}
Dates == <<"2025-12-30", "2025-12-31", "2026-01-01", "2026-01-02">>

\* what the days after the first hold: every period, none, or all but the
\* afternoon
LaterPeriods ==
    {[k \in 1..4 |-> "data"], [k \in 1..4 |-> "null"],
     [k \in 1..4 |-> IF k = 3 THEN "null" ELSE "data"]}

ForecastDays(n, first, later) ==
    [i \in 1..n |-> [date |-> Dates[i],
                     periods |-> IF i = 1 THEN first ELSE later[i - 1]]]

EmittedIfNotNull(v) == v \in {"empty", "data"}

\* period_data = day.get(period_name, {}); `if period_data:`
Emitted(v) == v = "data"

\* the hourly entry of a day's period k
HourlyEntry(day, k) ==
    [date |-> day.date, time |-> PeriodTimes[k],
     datetime |-> day.date \o "T" \o PeriodTimes[k] \o ":00"]

\* the loop over periods, from period k on
RECURSIVE HourlyOfDay(_, _)
HourlyOfDay(day, k) ==
    IF k > Len(Periods) THEN <<>>
    ELSE (IF Emitted(day.periods[k]) THEN <<HourlyEntry(day, k)>> ELSE <<>>)
            \o HourlyOfDay(day, k + 1)

\* the loop over days, from day i on
RECURSIVE HourlyFrom(_, _)
HourlyFrom(days, i) ==
    IF i > Len(days) THEN <<>>
    ELSE HourlyOfDay(days[i], 1) \o HourlyFrom(days, i + 1)

\* what _fetch_forecast leaves in daily_forecast and hourly_forecast
fetch_forecast(days) ==
    [fn |-> "_fetch_forecast",
     daily_forecast |-> [i \in 1..Len(days) |-> [date |-> days[i].date]],
     hourly_forecast |-> HourlyFrom(days, 1)]

InitForecast ==
    /\ Constructed({})
    /\ alerts_data = NotCalled /\ parsed = Unparsed
    /\ \E n \in 0..MaxDays : \E first \in [1..4 -> PeriodValues] :
        \E later \in [1..(n - 1) -> LaterPeriods] :
            call = [fn |-> "_fetch_forecast",
                    arg |-> ForecastDays(n, first, later)]
    /\ ret = NoRet

FetchForecast ==
    /\ call.fn = "_fetch_forecast" /\ ret = NoRet
    /\ ret' = fetch_forecast(call.arg)
    /\ UNCHANGED <<coreVars, parseVars, storeVars, call, flowVars>>

NextForecast == FetchForecast

SpecForecast == InitForecast /\ [][NextForecast]_vars

\* The forecast stage on a 200 response.  The body is the list of days
\* itself ("list") or an object holding that list under the key forecast
\* ("object"), the shape of the fixture mock_forecast_data.  Only a list is
\* read; for any other body the two fields stay as they were, the empty
\* lists of the constructor.
forecast_stage(shape, days) ==
    IF shape = "list"
    THEN [fn |-> "forecast_stage",
          daily_forecast |-> fetch_forecast(days).daily_forecast,
          hourly_forecast |-> fetch_forecast(days).hourly_forecast]
    ELSE [fn |-> "forecast_stage", daily_forecast |-> <<>>,
          hourly_forecast |-> <<>>]

InitFixture ==
    /\ Constructed({})
    /\ alerts_data = NotCalled /\ parsed = Unparsed
    /\ \E shape \in {"list", "object"} :
       \E n \in 0..MaxDays : \E first \in [1..4 -> PeriodValues] :
        \E later \in [1..(n - 1) -> LaterPeriods] :
            call = [fn |-> "forecast_stage", shape |-> shape,
                    arg |-> ForecastDays(n, first, later)]
    /\ ret = NoRet

ForecastStage ==
    /\ call.fn = "forecast_stage" /\ ret = NoRet
    /\ ret' = forecast_stage(call.shape, call.arg)
    /\ UNCHANGED <<coreVars, parseVars, storeVars, call, flowVars>>

NextFixture == ForecastStage

SpecFixture == InitFixture /\ [][NextFixture]_vars

\* ------------------------------------------------------ location search
\* handle_search_location.  An element of the response list is a record
\* [rec, id, coord] or not a record; coord is an object {lat, lon}, a list
\* of two numbers, a list of one, or null.
Coords ==
    {[kind |-> "dict", lat |-> -34, lon |-> -58],
     [kind |-> "list", items |-> <<-34, -58>>],
     [kind |-> "list", items |-> <<-34>>],
     [kind |-> "null"]}
SearchElements ==
    {[rec |-> FALSE]} \cup [rec : {TRUE}, id : {4864, 4865}, coord : Coords]
SearchBodies ==
    {[kind |-> "object"], [kind |-> "error"]}
        \cup UNION {{[kind |-> "list", items |-> l] : l \in [1..n -> SearchElements]}
                        : n \in 0..MaxLocations}

\* lat = coord[0], lon = coord[1]
PairLatLon(c) == [lat |-> c.items[1], lon |-> c.items[2]]

\* the latitude and longitude taken from coord; None when it has neither
LatLon(c) ==
    IF c.kind = "dict" THEN [lat |-> c.lat, lon |-> c.lon]
    ELSE IF c.kind = "list" /\ Len(c.items) >= 2 THEN PairLatLon(c)
    ELSE [lat |-> None, lon |-> None]

\* the loop over the response list, from element i on
RECURSIVE LocationsFrom(_, _)
LocationsFrom(items, i) ==
    IF i > Len(items) THEN <<>>
    ELSE (IF items[i].rec
          THEN <<[id |-> items[i].id,
                  latitude |-> LatLon(items[i].coord).lat,
                  longitude |-> LatLon(items[i].coord).lon]>>
          ELSE <<>>) \o LocationsFrom(items, i + 1)

\* the result for a call made while hass.data[DOMAIN] holds an entry
\* (loaded) or not, the response having body b; tokenOk says whether
\* get_token returned
handle_search_location(loaded, tokenOk, b) ==
    IF ~loaded
    THEN [fn |-> "search_location", locations |-> <<>>, count |-> None,
          keys |-> {"locations", "error"}]
    ELSE IF ~tokenOk \/ b.kind = "error"
    THEN [fn |-> "search_location", locations |-> <<>>, count |-> 0,
          keys |-> {"locations", "count", "query", "error"}]
    ELSE LET locs == IF b.kind = "list" THEN LocationsFrom(b.items, 1)
                     ELSE <<>>
         IN  [fn |-> "search_location", locations |-> locs,
              count |-> Len(locs), keys |-> {"locations", "count", "query"}]

InitSearch ==
    /\ Constructed({})
    /\ alerts_data = NotCalled /\ parsed = Unparsed
    /\ \E loaded \in BOOLEAN : \E tokenOk \in BOOLEAN : \E b \in SearchBodies :
        call = [fn |-> "search_location", loaded |-> loaded,
                tokenOk |-> tokenOk, body |-> b]
    /\ ret = NoRet

SearchLocation ==
    /\ call.fn = "search_location" /\ ret = NoRet
    /\ ret' = handle_search_location(call.loaded, call.tokenOk, call.body)
    /\ UNCHANGED <<coreVars, parseVars, storeVars, call, flowVars>>

NextSearch == SearchLocation

SpecSearch == InitSearch /\ [][NextSearch]_vars

\* ========================================================= JWT decoding
\* Text is a sequence of character codes, a Python int a sequence of decimal
\* digits (Python ints have no width).
Ascii(c) ==
    CASE c = " " -> 32 [] c = "\"" -> 34 [] c = "," -> 44 [] c = "-" -> 45
      [] c = "." -> 46 [] c = "0" -> 48 [] c = ":" -> 58 [] c = "=" -> 61
      [] c = "A" -> 65 [] c = "_" -> 95 [] c = "a" -> 97 [] c = "b" -> 98
      [] c = "e" -> 101 [] c = "p" -> 112 [] c = "s" -> 115 [] c = "u" -> 117
      [] c = "x" -> 120 [] c = "y" -> 121 [] c = "J" -> 74 [] c = "{" -> 123
      [] c = "}" -> 125

\* the base64url alphabet: A-Z a-z 0-9 - _
Alphabet(i) ==
    IF i < 26 THEN Ascii("A") + i
    ELSE IF i < 52 THEN Ascii("a") + (i - 26)
    ELSE IF i < 62 THEN Ascii("0") + (i - 52)
    ELSE IF i = 62 THEN Ascii("-") ELSE Ascii("_")

InAlphabet(c) == \E i \in 0..63 : Alphabet(i) = c

Sextet(c) == CHOOSE i \in 0..63 : Alphabet(i) = c

\* base64.urlsafe_b64encode: three bytes to four characters, '=' fills the
\* last group
RECURSIVE b64encode(_)
b64encode(bs) ==
    IF Len(bs) = 0 THEN <<>>
    ELSE IF Len(bs) = 1 THEN
        <<Alphabet(bs[1] \div 4), Alphabet((bs[1] % 4) * 16),
          Ascii("="), Ascii("=")>>
    ELSE IF Len(bs) = 2 THEN
        <<Alphabet(bs[1] \div 4),
          Alphabet((bs[1] % 4) * 16 + bs[2] \div 16),
          Alphabet((bs[2] % 16) * 4), Ascii("=")>>
    ELSE <<Alphabet(bs[1] \div 4),
           Alphabet((bs[1] % 4) * 16 + bs[2] \div 16),
           Alphabet((bs[2] % 16) * 4 + bs[3] \div 64),
           Alphabet(bs[3] % 64)>> \o b64encode(SubSeq(bs, 4, Len(bs)))

\* str.rstrip("=")
RECURSIVE rstrip(_)
rstrip(s) ==
    IF Len(s) > 0 /\ s[Len(s)] = Ascii("=")
    THEN rstrip(SubSeq(s, 1, Len(s) - 1)) ELSE s

\* "=" * n
Repeat(n) == [k \in 1..n |-> Ascii("=")]

\* the padding _decode_jwt_payload adds (56-59)
PadTo4(s) ==
    LET padding == 4 - (Len(s) % 4)
    IN  IF padding # 4 THEN s \o Repeat(padding) ELSE s

Failed == [ok |-> FALSE, value |-> <<>>]

RECURSIVE DecodeGroups(_)
DecodeGroups(d) ==
    IF Len(d) < 2 THEN <<>>
    ELSE LET a == Sextet(d[1])
             b == Sextet(d[2])
         IN  IF Len(d) = 2 THEN <<a * 4 + b \div 16>>
             ELSE LET c == Sextet(d[3])
                  IN  IF Len(d) = 3
                      THEN <<a * 4 + b \div 16, (b % 16) * 16 + c \div 4>>
                      ELSE <<a * 4 + b \div 16, (b % 16) * 16 + c \div 4,
                             (c % 4) * 64 + Sextet(d[4])>>
                           \o DecodeGroups(SubSeq(d, 5, Len(d)))

\* base64.urlsafe_b64decode: characters outside the alphabet are dropped; a
\* last group of one character, or one short of its '=' characters, is an
\* error
b64decode(s) ==
    LET d == SelectSeq(s, InAlphabet)
        pads == Len(SelectSeq(s, LAMBDA c : c = Ascii("=")))
        q == Len(d) % 4
    IN  IF q = 1 \/ (q # 0 /\ pads < 4 - q) THEN Failed
        ELSE [ok |-> TRUE, value |-> DecodeGroups(d)]

\* the claim names of the payloads
ExpKey == <<Ascii("e"), Ascii("x"), Ascii("p")>>
SubKey == <<Ascii("s"), Ascii("u"), Ascii("b")>>

\* a payload object as Python holds it: a mapping from its keys; of two
\* members with one key the later stays
DictOf(members) ==
    LET keys == {members[k][1] : k \in DOMAIN members}
        LastOf(key) ==
            CHOOSE k \in DOMAIN members :
                /\ members[k][1] = key
                /\ \A j \in DOMAIN members : members[j][1] = key => j <= k
    IN  [key \in keys |-> members[LastOf(key)][2]]

\* json.dumps of an object of integer members, with the separators seps
\* (<<>> for the compact form, a space for Python's default)
DigitCodes(v) == [k \in DOMAIN v |-> Ascii("0") + v[k]]

RECURSIVE json_members(_, _)
json_members(members, seps) ==
    IF Len(members) = 0 THEN <<>>
    ELSE <<Ascii("\"")>> \o members[1][1] \o <<Ascii("\""), Ascii(":")>>
         \o seps \o DigitCodes(members[1][2])
         \o (IF Len(members) = 1 THEN <<>>
             ELSE <<Ascii(",")>> \o seps
                  \o json_members(Tail(members), seps))

json_dumps(members, seps) ==
    <<Ascii("{")>> \o json_members(members, seps) \o <<Ascii("}")>>

\* json.loads of such a text
RECURSIVE Skip(_, _)
Skip(bs, i) ==
    IF i <= Len(bs) /\ bs[i] = Ascii(" ") THEN Skip(bs, i + 1) ELSE i

RECURSIVE StringEnd(_, _)
StringEnd(bs, i) ==
    IF i > Len(bs) THEN 0
    ELSE IF bs[i] = Ascii("\"") THEN i ELSE StringEnd(bs, i + 1)

IsDigit(c) == c >= Ascii("0") /\ c <= Ascii("0") + 9

RECURSIVE DigitsEnd(_, _)
DigitsEnd(bs, i) ==
    IF i <= Len(bs) /\ IsDigit(bs[i]) THEN DigitsEnd(bs, i + 1) ELSE i

RECURSIVE ParseMembers(_, _, _)
ParseMembers(bs, i, acc) ==
    LET k == Skip(bs, i)
        e == StringEnd(bs, k + 1)
        c == Skip(bs, e + 1)
        v == Skip(bs, c + 1)
        ve == DigitsEnd(bs, v)
        n == Skip(bs, ve)
        acc2 == Append(acc, <<SubSeq(bs, k + 1, e - 1),
                              [j \in 1..(ve - v) |-> bs[v + j - 1] - Ascii("0")]>>)
    IN  IF k > Len(bs) \/ bs[k] # Ascii("\"") THEN Failed
        ELSE IF e = 0 THEN Failed
        ELSE IF c > Len(bs) \/ bs[c] # Ascii(":") THEN Failed
        ELSE IF ve = v \/ (bs[v] = Ascii("0") /\ ve > v + 1) THEN Failed
        ELSE IF n > Len(bs) THEN Failed
        ELSE IF bs[n] = Ascii("}")
             THEN IF Skip(bs, n + 1) = Len(bs) + 1
                  THEN [ok |-> TRUE, value |-> DictOf(acc2)] ELSE Failed
        ELSE IF bs[n] = Ascii(",") THEN ParseMembers(bs, n + 1, acc2)
        ELSE Failed

json_loads(bs) ==
    LET i == Skip(bs, 1)
        n == Skip(bs, i + 1)
    IN  IF i > Len(bs) \/ bs[i] # Ascii("{") THEN Failed
        ELSE IF n <= Len(bs) /\ bs[n] = Ascii("}")
             THEN IF Skip(bs, n + 1) = Len(bs) + 1
                  THEN [ok |-> TRUE, value |-> DictOf(<<>>)] ELSE Failed
        ELSE ParseMembers(bs, i + 1, <<>>)

\* token.split(".")
RECURSIVE split(_, _)
split(s, cur) ==
    IF Len(s) = 0 THEN <<cur>>
    ELSE IF s[1] = Ascii(".") THEN <<cur>> \o split(Tail(s), <<>>)
    ELSE split(Tail(s), Append(cur, s[1]))

\* _decode_jwt_payload: {} for every failure
decode_jwt_payload(jwt) ==
    LET parts == split(jwt, <<>>)
        decoded == b64decode(PadTo4(parts[2]))
        loaded == json_loads(decoded.value)
    IN  IF Len(parts) # 3 THEN DictOf(<<>>)
        ELSE IF ~decoded.ok THEN DictOf(<<>>)
        ELSE IF ~loaded.ok THEN DictOf(<<>>)
        ELSE loaded.value

\* a <= b for Python ints written without leading zeros
RECURSIVE DigitsLeq(_, _)
DigitsLeq(a, b) ==
    IF Len(a) # Len(b) THEN Len(a) < Len(b)
    ELSE IF Len(a) = 0 THEN TRUE
    ELSE IF a[1] # b[1] THEN a[1] < b[1]
    ELSE DigitsLeq(Tail(a), Tail(b))

\* the last second datetime can hold: 9999-12-31T23:59:59Z
MaxTimestamp == <<2, 5, 3, 4, 0, 2, 3, 0, 0, 7, 9, 9>>

\* datetime.fromtimestamp(v, tz=UTC) raises beyond the year 9999
fromtimestamp_raises(v) == ~DigitsLeq(v, MaxTimestamp)

\* fetch_token from the decoding on (120-139): the payload it decoded, the
\* expiry and the token it stored, and what it raised; an error of
\* fromtimestamp leaves through "except Exception" as UpdateFailed
fetch_token_decodes(jwt) ==
    LET payload == decode_jwt_payload(jwt)
        has == ExpKey \in DOMAIN payload
        bad == has /\ fromtimestamp_raises(payload[ExpKey])
    IN  [fn |-> "fetch_token", payload |-> payload,
         raised |-> IF bad THEN "UpdateFailed" ELSE "none",
         expiry_stored |-> has /\ ~bad,
         expiration |-> IF has /\ ~bad THEN payload[ExpKey] ELSE <<>>,
         token_stored |-> ~bad]

\* the exp claims tried: 0, small values, the test's 9999999999, and the two
\* values around the end of the year 9999
ExpValues ==
    {<<0>>, <<7>>, <<4, 2>>, <<9, 9, 9, 9, 9, 9, 9, 9, 9, 9>>,
     MaxTimestamp, <<2, 5, 3, 4, 0, 2, 3, 0, 0, 8, 0, 0>>}

SubValues == {<<1>>, <<1, 2>>}

\* payload objects with a numeric exp, alone or beside another claim
Payloads ==
    {<<<<ExpKey, e>>>> : e \in ExpValues}
    \cup {<<<<SubKey, s>>, <<ExpKey, e>>>> : s \in SubValues, e \in ExpValues}
    \cup {<<<<ExpKey, e>>, <<SubKey, s>>>> : s \in SubValues, e \in ExpValues}

Separators == {<<>>, <<Ascii(" ")>>}

Header == <<Ascii("e"), Ascii("y"), Ascii("J")>>
Signatures == {<<Ascii("s")>>, <<Ascii("s"), Ascii("_")>>}

\* mock_jwt_token: header.payload.signature, the payload segment without
\* its '=' padding
jwt_token(members, seps, sig) ==
    Header \o <<Ascii(".")>> \o rstrip(b64encode(json_dumps(members, seps)))
    \o <<Ascii(".")>> \o sig

InitJwt ==
    /\ Constructed({})
    /\ alerts_data = NotCalled /\ parsed = Unparsed
    /\ \E m \in Payloads : \E seps \in Separators : \E sig \in Signatures :
        call = [fn |-> "fetch_token", members |-> m,
                token |-> jwt_token(m, seps, sig)]
    /\ ret = NoRet

FetchTokenDecodes ==
    /\ call.fn = "fetch_token" /\ ret = NoRet
    /\ ret' = fetch_token_decodes(call.token)
    /\ UNCHANGED <<coreVars, parseVars, storeVars, call, flowVars>>

NextJwt == FetchTokenDecodes

SpecJwt == InitJwt /\ [][NextJwt]_vars

\* ========================================================== config flow
\* Coordinates are counted in steps of 0.00005 degrees, half of
\* COORD_TOLERANCE.
Abs(x) == IF x < 0 THEN -x ELSE x

\* latitudes and longitudes a user may submit: a grid at Buenos Aires
\* (-34.6217, -58.4258) and one latitude beyond 90 degrees
Latitudes == {-692434 + k : k \in 0..MaxOffset} \cup {1800001}
Longitudes == {-1168516 + k : k \in 0..MaxOffset}

\* what the location lookup of the SMN site would answer
Lookups == {"ok", "fails"}

async_validate_location(lat, lon) ==
    IF ~(-1800000 <= lat /\ lat <= 1800000) THEN "invalid_latitude"
    ELSE IF ~(-3600000 <= lon /\ lon <= 3600000) THEN "invalid_longitude"
    ELSE "none"

\* the comparison of _async_check_unique_id (86-89)
Near(a, b) ==
    /\ Abs(a[1] - b[1]) < COORD_TOLERANCE
    /\ Abs(a[2] - b[2]) < COORD_TOLERANCE

\* _async_check_unique_id: is_unique
async_check_unique_id(es, lat, lon) == ~\E e \in es : Near(e, <<lat, lon>>)

\* async_step_user with a user input: the flow result and the entries of the
\* domain after it; the step looks nothing up at the SMN site
async_step_user(es, lat, lon, lookup) ==
    LET validation_errors == async_validate_location(lat, lon)
        form(errors) ==
            [es |-> es,
             flow |-> [type |-> "form", errors |-> errors,
                       input |-> <<lat, lon>>, lookup |-> lookup]]
    IN  IF validation_errors # "none" THEN form(validation_errors)
        ELSE IF ~async_check_unique_id(es, lat, lon)
             THEN form("already_configured")
        ELSE [es |-> es \cup {<<lat, lon>>},
              flow |-> [type |-> "create_entry", errors |-> "none",
                        input |-> <<lat, lon>>, lookup |-> lookup]]

\* async_step_user without input: the empty form
FlowInit ==
    /\ flow.type # "form"
    /\ flow' = [type |-> "form", errors |-> "none", input |-> <<>>,
                lookup |-> "none"]
    /\ UNCHANGED <<coreVars, parseVars, storeVars, callVars, entries>>

\* async_step_onboarding while no home location is set
FlowOnboardingNoHome ==
    /\ flow.type # "form"
    /\ flow' = [type |-> "abort", errors |-> "no_home", input |-> <<>>,
                lookup |-> "none"]
    /\ UNCHANGED <<coreVars, parseVars, storeVars, callVars, entries>>

FlowSubmit ==
    /\ flow.type = "form"
    /\ \E lat \in Latitudes : \E lon \in Longitudes : \E lookup \in Lookups :
        LET r == async_step_user(entries, lat, lon, lookup)
        IN  /\ entries' = r.es
            /\ flow' = r.flow
    /\ UNCHANGED <<coreVars, parseVars, storeVars, callVars>>

InitFlow ==
    /\ Constructed({})
    /\ NoCalls
    /\ alerts_data = NotCalled /\ parsed = Unparsed

NextFlow == FlowInit \/ FlowOnboardingNoHome \/ FlowSubmit

SpecFlow == InitFlow /\ [][NextFlow]_vars

\* ====================================================== format_condition
\* Text is a sequence of characters.

\* str.lower, character by character
LowerChar(c) ==
    CASE c = "A" -> "a" [] c = "B" -> "b" [] c = "C" -> "c" [] c = "D" ->
      "d" [] c = "E" -> "e" [] c = "F" -> "f" [] c = "G" -> "g" [] c = "H"
      -> "h" [] c = "I" -> "i" [] c = "J" -> "j" [] c = "K" -> "k" [] c =
      "L" -> "l" [] c = "M" -> "m" [] c = "N" -> "n" [] c = "O" -> "o" [] c
      = "P" -> "p" [] c = "Q" -> "q" [] c = "R" -> "r" [] c = "S" -> "s" []
      c = "T" -> "t" [] c = "U" -> "u" [] c = "V" -> "v" [] c = "W" -> "w"
      [] c = "X" -> "x" [] c = "Y" -> "y" [] c = "Z" -> "z" [] OTHER -> c

Lower(t) == [k \in DOMAIN t |-> LowerChar(t[k])]

\* needle in hay
Contains(hay, needle) ==
    \E i \in 0..(Len(hay) - Len(needle)) :
        SubSeq(hay, i + 1, i + Len(needle)) = needle

\* CONDITIONS_MAP in the order of its items: <<HA condition, SMN texts>>
CONDITIONS_MAP ==
    <<
      <<"clear-night",
        <<<<"d", "e", "s", "p", "e", "j", "a", "d", "o", " ", "n", "o", "c",
            "h", "e">>,
          <<"c", "l", "e", "a", "r", " ", "n", "i", "g", "h", "t">>>>>>,
      <<"cloudy",
        <<<<"n", "u", "b", "l", "a", "d", "o">>,
          <<"c", "u", "b", "i", "e", "r", "t", "o">>,
          <<"c", "l", "o", "u", "d", "y">>,
          <<"o", "v", "e", "r", "c", "a", "s", "t">>>>>>,
      <<"fog",
        <<<<"n", "i", "e", "b", "l", "a">>,
          <<"f", "o", "g">>,
          <<"n", "e", "b", "l", "i", "n", "a">>>>>>,
      <<"partlycloudy",
        <<<<"p", "a", "r", "c", "i", "a", "l", "m", "e", "n", "t", "e", " ",
            "n", "u", "b", "l", "a", "d", "o">>,
          <<"p", "a", "r", "t", "l", "y", " ", "c", "l", "o", "u", "d",
            "y">>,
          <<"a", "l", "g", "o", " ", "n", "u", "b", "l", "a", "d", "o">>,
          <<"m", "a", "y", "o", "r", "m", "e", "n", "t", "e", " ", "n", "u",
            "b", "l", "a", "d", "o">>>>>>,
      <<"rainy",
        <<<<"l", "l", "u", "v", "i", "a">>,
          <<"l", "l", "o", "v", "i", "z", "n", "a">>,
          <<"r", "a", "i", "n">>,
          <<"d", "r", "i", "z", "z", "l", "e">>,
          <<"c", "h", "a", "p", "a", "r", "r", "o", "n">>,
          <<"t", "o", "r", "m", "e", "n", "t", "a">>>>>>,
      <<"snowy",
        <<<<"n", "i", "e", "v", "e">>,
          <<"s", "n", "o", "w">>,
          <<"n", "e", "v", "a", "d", "a">>>>>>,
      <<"sunny",
        <<<<"d", "e", "s", "p", "e", "j", "a", "d", "o">>,
          <<"s", "o", "l", "e", "a", "d", "o">>,
          <<"c", "l", "e", "a", "r">>,
          <<"s", "u", "n", "n", "y">>>>>>
    >>

\* truthiness of a condition: None, "" and {} are false
Truthy(c) ==
    CASE c.kind = "none" -> FALSE
      [] c.kind = "str" -> Len(c.text) > 0
      [] OTHER -> c.keys # {}

DefaultCondition(sun_is_up) == IF sun_is_up THEN "sunny" ELSE "clear-night"

\* the two loops of format_condition from item i, text j on: the first
\* contained text in the order of the map decides
RECURSIVE Lookup(_, _, _, _)
Lookup(condition_lower, sun_is_up, i, j) ==
    IF i > Len(CONDITIONS_MAP) THEN DefaultCondition(sun_is_up)
    ELSE IF j > Len(CONDITIONS_MAP[i][2])
         THEN Lookup(condition_lower, sun_is_up, i + 1, 1)
    ELSE IF Contains(condition_lower, Lower(CONDITIONS_MAP[i][2][j]))
         THEN IF CONDITIONS_MAP[i][1] = "sunny" /\ ~sun_is_up
              THEN "clear-night" ELSE CONDITIONS_MAP[i][1]
    ELSE Lookup(condition_lower, sun_is_up, i, j + 1)

\* format_condition: the value returned or the exception raised; a record
\* has no method lower
format_condition(c, sun_is_up) ==
    IF ~Truthy(c)
    THEN [fn |-> "format_condition", raised |-> "none",
          value |-> DefaultCondition(sun_is_up)]
    ELSE IF c.kind # "str"
    THEN [fn |-> "format_condition", raised |-> "AttributeError",
          value |-> "none"]
    ELSE [fn |-> "format_condition", raised |-> "none",
          value |-> Lookup(Lower(c.text), sun_is_up, 1, 1)]

\* condition texts: empty, known to the map, and unknown to it
ConditionTexts ==
    {<<>>,
     <<"D", "e", "s", "p", "e", "j", "a", "d", "o">>,
     <<"D", "E", "S", "P", "E", "J", "A", "D", "O">>,
     <<"d", "e", "s", "p", "e", "j", "a", "d", "o", " ", "n", "o", "c", "h",
  "e">>,
     <<"P", "a", "r", "c", "i", "a", "l", "m", "e", "n", "t", "e", " ", "n", "u",
  "b", "l", "a", "d", "o">>,
     <<"N", "u", "b", "l", "a", "d", "o">>,
     <<"L", "l", "u", "v", "i", "a">>,
     <<"T", "o", "r", "m", "e", "n", "t", "a">>,
     <<"N", "i", "e", "v", "e">>,
     <<"N", "i", "e", "b", "l", "a">>,
     <<"S", "o", "l", "e", "a", "d", "o">>,
     <<"t", "e", "s", "t">>,
     <<"V", "e", "n", "t", "o", "s", "o">>,
     <<"A", "l", "g", "o", " ", "n", "u", "b", "l", "a", "d", "o">>,
     <<"c", "l", "e", "a", "r">>,
     <<"L", "l", "o", "v", "i", "z", "n", "a">>,
     <<"N", "e", "v", "a", "d", "a">>}

\* every SMN text listed in CONDITIONS_MAP
Keywords ==
    UNION {{CONDITIONS_MAP[i][2][j] : j \in DOMAIN CONDITIONS_MAP[i][2]} :
              i \in DOMAIN CONDITIONS_MAP}

Despejado == <<"D", "e", "s", "p", "e", "j", "a", "d", "o">>

\* the description of a condition record: none, unknown or clear
Descriptions == {<<"t", "e", "s", "t">>, Despejado}

\* the conditions a caller passes: None, text, or a record with id and
\* description, either of which may be missing
ConditionValues ==
    {[kind |-> "none"]}
    \cup {[kind |-> "str", text |-> t] : t \in ConditionTexts \cup Keywords}
    \cup {[kind |-> "dict", keys |-> {}]}
    \cup {[kind |-> "dict", keys |-> {"id"}, id |-> i] : i \in {3, 5}}
    \cup {[kind |-> "dict", keys |-> {"description"}, description |-> d] :
              d \in Descriptions}
    \cup {[kind |-> "dict", keys |-> {"id", "description"}, id |-> i,
           description |-> d] : i \in {3, 5}, d \in Descriptions}

InitCondition ==
    /\ Constructed({})
    /\ alerts_data = NotCalled /\ parsed = Unparsed
    /\ \E c \in ConditionValues : \E up \in BOOLEAN :
        call = [fn |-> "format_condition", condition |-> c, sun_is_up |-> up]
    /\ ret = NoRet

FormatCondition ==
    /\ call.fn = "format_condition" /\ ret = NoRet
    /\ ret' = format_condition(call.condition, call.sun_is_up)
    /\ UNCHANGED <<coreVars, parseVars, storeVars, call, flowVars>>

NextCondition == FormatCondition

SpecCondition == InitCondition /\ [][NextCondition]_vars

\* =============================================================== claims
\* the tasks that call get_token: the refresh tasks and the services
Callers == Runners \cup {"svc"}

\* the snapshot fields a stage assigns
StageFields(s) ==
    IF s = "weather" THEN {"current_weather_data"}
    ELSE IF s = "forecast" THEN {"daily_forecast", "hourly_forecast"}
    ELSE IF s = "alerts" THEN {"alerts"}
    ELSE IF s = "heat" THEN {"heat_warnings"}
    ELSE {}

\* task r handles the response to its GET of stage s in this step
Handles(r, s) ==
    /\ pc[r] = "req" /\ stage[r] = s
    /\ pc'[r] # "req" \/ stage'[r] # s

\* C1: get_token.  A caller that begins a stage calls get_token: if a token
\* and an expiry are stored and now < expiry - 5 minutes its GET goes out at
\* once with the stored token and no token page request is made; in every
\* other case exactly one token page request goes out and nothing is
\* returned yet.  When that request comes back the caller either continues
\* its stage with the fetched token or gives up with the stored token
\* untouched; a token page request never goes out except at such a call.
C1_GetToken ==
    [][\A p \in Callers :
        /\ (stage'[p] # stage[p] /\ stage'[p] # "none") =>
              IF token.set /\ token_expiration # None
                           /\ now < token_expiration - Margin
              THEN pc'[p] = "req" /\ got'[p] = "cached" /\ UNCHANGED tokenVars
              ELSE pc'[p] = "tok" /\ got'[p] = "none" /\ UNCHANGED tokenVars
        /\ (pc[p] = "tok" /\ pc'[p] # "tok") =>
              \/ /\ pc'[p] = "req" /\ stage'[p] = stage[p]
                 /\ got'[p] = "fetched" /\ token'.set
              \/ pc'[p] = "idle" /\ UNCHANGED tokenVars
        /\ (pc[p] # "tok" /\ pc'[p] = "tok") => stage'[p] # stage[p]
      ]_vars

\* C1 witness: a service's GET is in flight with the token it got from the
\* cache, and now that the token has come within 5 minutes of its expiry a
\* refresh cycle's get_token has a token page request in flight.
C1_Witness ==
    /\ pc["svc"] = "req" /\ got["svc"] = "cached"
    /\ pc["sched"] = "tok"
    /\ token.set /\ token_expiration # None
    /\ now >= token_expiration - Margin

\* C2: when a refresh task handles a transport/HTTP error or timeout of its
\* weather, forecast, alert or heat-warning GET, the fields of that stage
\* hold what they held when the cycle began, the cycle has not failed, after
\* weather the forecast stage begins, after forecast the alert stage begins,
\* and after the alert or heat-warning GET the cycle ends successfully.
C2_StageErrorDegrades ==
    [][\A r \in Runners : \A s \in Stages \ {"loc"} :
        (Handles(r, s) /\ last' = [r |-> r, s |-> s, o |-> "err"]) =>
            /\ \A f \in StageFields(s) :
                  data'[f] = IF f \in had[r] THEN OLD ELSE EMPTY
            /\ result'[r] # "failed"
            /\ s = "weather" => (stage'[r] = "forecast" /\ pc'[r] # "idle")
            /\ s = "forecast" => (stage'[r] = "alerts" /\ pc'[r] # "idle")
            /\ s \in {"alerts", "heat"} => (result'[r] = "ok" /\ pc'[r] = "idle")
      ]_vars

\* C2 witness: the forecast GET of a cycle has failed, the forecast fields
\* still hold the data of an earlier cycle, and the alert stage is running.
C2_Witness ==
    /\ last = [r |-> "sched", s |-> "forecast", o |-> "err"]
    /\ stage["sched"] = "alerts" /\ pc["sched"] = "req"
    /\ "daily_forecast" \in had["sched"]
    /\ data["daily_forecast"] = OLD /\ data["hourly_forecast"] = OLD

\* C3: when location resolution fails (transport or HTTP error, or a
\* response that is neither an object nor a non-empty array), the cycle ends
\* as update-failed in that step, the location request is the only request
\* the cycle has issued, no location id is cached and every snapshot field
\* is unchanged.
C3_LocationFailure ==
    [][\A r \in Runners :
        (Handles(r, "loc") /\ last'.o \in {"err", "shape"}) =>
            /\ result'[r] = "failed" /\ pc'[r] = "idle"
            /\ sent[r] = {"loc"}
            /\ location_id' = NoLocation
            /\ data' = data
      ]_vars

\* C3 witness: the first refresh has failed on a location response of an
\* unexpected shape, and no location id is cached.
C3_Witness ==
    /\ last = [r |-> "sched", s |-> "loc", o |-> "shape"]
    /\ result["sched"] = "failed" /\ entry = "retry"
    /\ location_id = NoLocation

\* C4: whenever a cycle ends in failure, no field that held data when the
\* cycle began is empty when it ends.
C4_FailureKeepsSnapshot ==
    [][\A r \in Runners :
        (result[r] = "running" /\ result'[r] = "failed") =>
            \A f \in had[r] : data'[f] # EMPTY
      ]_vars

\* C5: once the entry is loaded and readers exist, the snapshot never shows,
\* while a cycle is suspended, some fields written by that cycle next to
\* fields that still come from an earlier one.
C5_NoHalfUpdatedSnapshot ==
    entry = "loaded" =>
        \A r \in Runners : pc[r] # "idle" =>
            \A f \in DOMAIN data : \A g \in DOMAIN data :
                data[f] = r => data[g] = r

\* C6: at no time is fetch_data in progress in two tasks at once.
C6_SingleCycle ==
    ~(pc["sched"] # "idle" /\ pc["req"] # "idle")

\* C7: while the stored token is one without a decodable exp claim, the
\* stored expiry is null and the token is not usable from the cache.
C7_NoExpiryMeansStale ==
    (token.set /\ token.exp = None) =>
        /\ token_expiration = None
        /\ ~(token_expiration # None /\ now < token_expiration - Margin)

\* C8: whenever a proactive-refresh timer is pending, its fire time is the
\* stored expiry minus 5 minutes.
C8_TimerTracksExpiry ==
    timerAt # None =>
        (token_expiration # None /\ timerAt = token_expiration - Margin)

C10_NoTimerAfterUnload ==
    entry = "unloaded" => (timerAt = None /\ pc["timer"] = "idle")

\* C11: when the home coordinates change, in that step the cached location
\* id is invalidated, the data object takes the new coordinates and an
\* out-of-band refresh starts.
C11_HomeMoveInvalidates ==
    [][home' # home =>
        /\ location_id' = NoLocation
        /\ coords' = home'
        /\ pc'["req"] # "idle"
      ]_vars

\* C12: once a location id is cached on a data object, the id stays as it
\* is and no task begins a coordinate lookup (neither its token request nor
\* its GET), in every step that does not construct a new data object.
C12_LocationCached ==
    [][(location_id # NoLocation /\ ~(entry = "retry" /\ entry' = "setup")) =>
        /\ location_id' = location_id
        /\ \A r \in Runners : stage'[r] # "loc"
      ]_vars

\* C12 witness: a later cycle of a loaded entry is under way with the cached
\* id; its first request is the weather request.
C12_Witness ==
    /\ entry = "loaded" /\ location_id # NoLocation
    /\ pc["sched"] = "req" /\ stage["sched"] = "weather"
    /\ sent["sched"] = {"weather"}

\* C13 as claimed: a coordinate lookup answered with an object or a
\* one-element array caches the value under "id", or else under
\* "location_id", of the object or element and goes on; answered with any
\* other shape (a longer array, an empty array, an array of a non-object, a
\* scalar, null) or with a transport or HTTP error it fails the cycle as
\* update-failed and leaves the location id unset.
C13_LookupShapes ==
    [][\A r \in Runners : Handles(r, "loc") =>
        LET b == LocBody(last'.o)
            accepted == b.kind = "object" \/ (b.kind = "array" /\ b.len = 1 /\ b.rec)
        IN  /\ (accepted /\ b.id # "") =>
                (location_id' = b.id /\ result'[r] = "running")
            /\ (accepted /\ b.id = "" /\ b.location_id # "") =>
                (location_id' = b.location_id /\ result'[r] = "running")
            /\ ~accepted =>
                (result'[r] = "failed" /\ location_id' = NoLocation)
      ]_vars

\* C13 amended: the same with every non-empty array whose first element is
\* an object accepted, the identifier being taken from the first element.
C13_LookupShapesNonEmptyArray ==
    [][\A r \in Runners : Handles(r, "loc") =>
        LET b == LocBody(last'.o)
            accepted == b.kind = "object" \/ (b.kind = "array" /\ b.len >= 1 /\ b.rec)
        IN  /\ (accepted /\ b.id # "") =>
                (location_id' = b.id /\ result'[r] = "running")
            /\ (accepted /\ b.id = "" /\ b.location_id # "") =>
                (location_id' = b.location_id /\ result'[r] = "running")
            /\ ~accepted =>
                (result'[r] = "failed" /\ location_id' = NoLocation)
      ]_vars

\* C13 witness: the lookup was answered with an object that has no "id" but
\* a "location_id", which is now the cached id, and the cycle has gone on.
C13_Witness ==
    /\ last = [r |-> "sched", s |-> "loc", o |-> "locid"]
    /\ location_id = "4865"
    /\ stage["sched"] = "weather" /\ result["sched"] = "running"

\* C14: whenever a refresh task's token request fails, at whatever stage of
\* its cycle, the cycle ends as update-failed.
C14_TokenFailureFailsCycle ==
    [][\A r \in Runners :
        (pc[r] = "tok" /\ pc'[r] = "idle") => result'[r] = "failed"
      ]_vars

\* a cycle of the interval refresh has refreshed both forecast fields and
\* is waiting for the alert response
Refreshing ==
    /\ pc["sched"] = "req" /\ stage["sched"] = "alerts"
    /\ data["daily_forecast"] = "sched" /\ data["hourly_forecast"] = "sched"

\* C15: a cycle that is triggered while no stored token is usable requests a
\* token, whatever failed before; and, with cycles being triggered again
\* and again and the site recovering, once a cycle has failed (the cached
\* location id being a real one) a later cycle refreshes the forecast, and
\* such a cycle ends successfully with the refreshed fields in the
\* snapshot.
C15_Recovers ==
    /\ [][\A r \in Runners :
            (result[r] # "running" /\ result'[r] = "running") =>
                \/ pc'[r] = "tok"
                \/ token.set /\ token_expiration # None
                             /\ now < token_expiration - Margin
         ]_vars
    /\ (result["sched"] = "failed" /\ location_id # "None") ~> Refreshing
    /\ Refreshing ~>
          /\ result["sched"] = "ok"
          /\ data["daily_forecast"] = OLD /\ data["hourly_forecast"] = OLD

\* C15 witness: a loaded entry's cycle has failed at its token request (no
\* response was handled in it), and the site has recovered since.
C15_Witness ==
    /\ entry = "loaded" /\ result["sched"] = "failed"
    /\ last = NoResponse /\ upstream = "good"
    /\ location_id \in {"4864", "4865"}

\* C16: when a cycle handles a forecast response whose body is not a list,
\* or is a list with an element that is not a record, daily_forecast and
\* hourly_forecast are left as they were and the cycle goes on to the
\* alert stage.
C16_ForecastShapeKeeps ==
    [][\A r \in Runners :
        (Handles(r, "forecast") /\ last'.o \in {"shape", "badelem"}) =>
            /\ data'["daily_forecast"] = data["daily_forecast"]
            /\ data'["hourly_forecast"] = data["hourly_forecast"]
            /\ stage'[r] = "alerts"
      ]_vars

\* C17: whatever a refresh cycle lets out to the framework is an
\* UpdateFailed, a failed cycle does let one out, and the proactive refresh
\* callback lets out nothing.
C17_OnlyUpdateFailedEscapes ==
    /\ \A r \in Runners :
        /\ escaped[r] \in {"none", "UpdateFailed"}
        /\ result[r] = "failed" => escaped[r] = "UpdateFailed"
    /\ escaped["timer"] = "none"

\* C17 witness: a cycle has failed and let out an UpdateFailed, and the
\* timer callback's fetch_token has failed too.
C17_Witness ==
    /\ result["sched"] = "failed" /\ escaped["sched"] = "UpdateFailed"
    /\ refreshLog = "failed" /\ pc["timer"] = "idle"

\* a cycle's call of _fetch_heat_warnings begins in this step
HeatBegins(r) == stage[r] # "heat" /\ stage'[r] = "heat"

\* C18: a cycle begins the heat-warning fetch exactly when it handles an
\* alert response that is a single object with a non-null area_id, and the
\* alerts field then already holds that response; a heat-warning response
\* that fails leaves alerts and heat_warnings as they were and the cycle
\* ends successfully.
C18_HeatChaining ==
    [][\A r \in Runners :
        /\ HeatBegins(r) <=>
              /\ Handles(r, "alerts")
              /\ AlertBody(last'.o).kind = "object"
              /\ AlertBody(last'.o).area_id # None
        /\ HeatBegins(r) => data'["alerts"] = r
        /\ (Handles(r, "heat") /\ last'.o \in {"shape", "err"}) =>
              /\ data'["alerts"] = Commit(data, r)["alerts"]
              /\ data'["heat_warnings"] = Commit(data, r)["heat_warnings"]
              /\ result'[r] = "ok"
      ]_vars

\* the events of the current day of the bundle passed to _parse_alerts
CurrentEvents ==
    IF Len(alerts_data.warnings) > 0 THEN alerts_data.warnings[1] ELSE <<>>

\* the positions of the current-day events whose max_level is above 1
Qualifying ==
    {i \in 1..Len(CurrentEvents) : CurrentEvents[i].max_level > 1}

\* the position of the k-th such event
Nth(k) ==
    CHOOSE i \in Qualifying : Cardinality({j \in Qualifying : j <= i}) = k

\* C19: for a bundle, active_alerts has exactly one entry per current-day
\* event with max_level > 1, in the events' order (so none for any other
\* event or day); the k-th entry carries the k-th such event's id and
\* max_level, the vocabulary's name for the id or "unknown_<id>", and, for
\* a level of the severity table, that level's name, color and severity.
C19_ActiveAlerts ==
    (parsed # Unparsed /\ alerts_data.kind = "dict") =>
        /\ Len(parsed.active_alerts) = Cardinality(Qualifying)
        /\ \A k \in 1..Len(parsed.active_alerts) :
            LET ev == CurrentEvents[Nth(k)]
                a == parsed.active_alerts[k]
            IN  /\ a.event_id = ev.id
                /\ a.max_level = ev.max_level
                /\ a.event_name = IF ev.id = 41 THEN "tormenta"
                                  ELSE IF ev.id = 37 THEN "lluvia"
                                  ELSE "unknown_99"
                /\ ev.max_level \in DOMAIN ALERT_LEVEL_MAP =>
                      /\ a.level_name = ALERT_LEVEL_MAP[ev.max_level].name
                      /\ a.color = ALERT_LEVEL_MAP[ev.max_level].color
                      /\ a.severity = ALERT_LEVEL_MAP[ev.max_level].severity

\* C19 witness: two days of two events each; of the current day's events
\* one is at level 1 and the other, of an id outside the vocabulary, at
\* level 2, and the next day has an event at level 3; one entry came back.
C19_Witness ==
    /\ parsed # Unparsed /\ alerts_data.kind = "dict"
    /\ Len(alerts_data.warnings) = 2
    /\ alerts_data.warnings[1] =
          <<[id |-> 41, max_level |-> 1], [id |-> 99, max_level |-> 2]>>
    /\ \E i \in 1..Len(alerts_data.warnings[2]) :
          alerts_data.warnings[2][i].max_level = 3
    /\ Len(parsed.active_alerts) = 1
    /\ parsed.active_alerts[1].event_name = "unknown_99"

\* the levels above 1 among the current-day events
QualifyingLevels == {CurrentEvents[i].max_level : i \in Qualifying}

\* C20: for a bundle, the returned max_level is the greatest max_level of
\* the current-day events above level 1, or 1 when there is none;
\* max_severity is that level's severity tag when the level is in the
\* severity table; and with every current-day event at level 1 the result
\* is no active alert and max_severity "info".
C20_MaxLevel ==
    (parsed # Unparsed /\ alerts_data.kind = "dict") =>
        /\ parsed.max_level \in QualifyingLevels \cup {1}
        /\ \A l \in QualifyingLevels \cup {1} : l <= parsed.max_level
        /\ parsed.max_level \in DOMAIN ALERT_LEVEL_MAP =>
              parsed.max_severity = ALERT_LEVEL_MAP[parsed.max_level].severity
        /\ (\A i \in 1..Len(CurrentEvents) : CurrentEvents[i].max_level = 1) =>
              /\ parsed.active_alerts = <<>>
              /\ parsed.max_severity = "info"

\* C20 witness: the current day's events are at levels 3 and 2, in this
\* order, and level 3 and "warning" came back.
C20_Witness ==
    /\ parsed # Unparsed /\ alerts_data.kind = "dict"
    /\ Len(alerts_data.warnings) > 0
    /\ Len(alerts_data.warnings[1]) = 2
    /\ alerts_data.warnings[1][1].max_level = 3
    /\ alerts_data.warnings[1][2].max_level = 2
    /\ parsed.max_level = 3 /\ parsed.max_severity = "warning"

\* the places <<i, j>> of the report entries that match event ev: report i
\* is for the event's id and its entry j is for the event's max_level
Matches(ev) ==
    {m \in (1..Len(alerts_data.reports)) \X (1..MaxReports + 1) :
        /\ alerts_data.reports[m[1]].event_id = ev.id
        /\ m[2] <= Len(alerts_data.reports[m[1]].levels)
        /\ alerts_data.reports[m[1]].levels[m[2]] = ev.max_level}

\* m comes before n in scan order
Before(m, n) == m[1] < n[1] \/ (m[1] = n[1] /\ m[2] <= n[2])

\* C21: every active alert carries the description and instruction of the
\* first report entry, in scan order over reports and their levels, that
\* matches its event id and max_level, and null for both when no entry
\* matches.
C21_FirstMatchWins ==
    parsed # Unparsed =>
        \A k \in 1..Len(parsed.active_alerts) :
            LET a == parsed.active_alerts[k]
                M == Matches([id |-> a.event_id, max_level |-> a.max_level])
            IN  /\ a.instruction = a.description
                /\ IF M = {} THEN a.description = NoText
                   ELSE /\ a.description \in M
                        /\ \A n \in M : Before(a.description, n)

\* C22: when get_alerts has parsed the stored alerts and the last successful
\* alert response was a bundle whose current day has an event above level 1,
\* the result has active alerts, and the max_severity and area_id of that
\* bundle.
C22_GetAlertsParsesStored ==
    (/\ parsed # Unparsed /\ alerts_data = alerts
     /\ alert_response.kind = "dict"
     /\ Len(alert_response.warnings) > 0
     /\ \E i \in 1..Len(alert_response.warnings[1]) :
            alert_response.warnings[1][i].max_level > 1)
        => /\ parsed.active_alerts # <<>>
           /\ parsed.max_severity = parse_alerts(alert_response).max_severity
           /\ parsed.area_id = alert_response.area_id

\* C23: every result of _parse_alerts or of get_alerts has the keys
\* active_alerts, max_severity, max_level, area_id and updated.
C23_ResultKeys ==
    parsed # Unparsed =>
        {"active_alerts", "max_severity", "max_level", "area_id", "updated"}
            \subseteq parsed.keys

\* the slots <<day, period>> of the forecast passed to _fetch_forecast
\* that hold one of the values vs
Slots(vs) ==
    {sl \in (1..Len(call.arg)) \X (1..4) : call.arg[sl[1]].periods[sl[2]] \in vs}

\* the place of slot sl among the slots S, in day order and period order
Rank(S, sl) == Cardinality({t \in S : Before(t, sl)})

\* hourly_forecast has exactly one entry per slot of S, in order, each with
\* its day's date and its period's start time, and daily_forecast one
\* entry per day
ExpandsTo(S) ==
    /\ Len(ret.daily_forecast) = Len(call.arg)
    /\ \A i \in 1..Len(call.arg) : ret.daily_forecast[i].date = Dates[i]
    /\ Len(ret.hourly_forecast) = Cardinality(S)
    /\ \A sl \in S :
        ret.hourly_forecast[Rank(S, sl)].datetime =
            Dates[sl[1]] \o <<"T00:00:00", "T06:00:00", "T12:00:00",
                              "T18:00:00">>[sl[2]]

\* C24 as stated: one hourly entry for every period whose sub-object is not
\* null, none for a null or absent one.
C24_PeriodsNonNull ==
    ret.fn = "_fetch_forecast" => ExpandsTo(Slots({"empty", "data"}))

\* C24: after a forecast stage that read a list of days, hourly_forecast
\* has, day by day and period by period in order, exactly one entry for
\* each period whose sub-object is a non-empty object and none for a null,
\* absent or empty one; the entry's datetime is the day's date followed by
\* T00:00:00, T06:00:00, T12:00:00 or T18:00:00; daily_forecast has exactly
\* one entry per day.
C24_PeriodsWithData ==
    ret.fn = "_fetch_forecast" => ExpandsTo(Slots({"data"}))

\* C24 witness: two days; the first has data for the early morning and the
\* night, null for the afternoon and an empty object for the morning, the
\* second has all four periods; six entries were stored.
C24_Witness ==
    /\ ret.fn = "_fetch_forecast"
    /\ Len(call.arg) = 2
    /\ call.arg[1].periods = <<"data", "empty", "null", "data">>
    /\ call.arg[2].periods = <<"data", "data", "data", "data">>
    /\ Len(ret.hourly_forecast) = 6
    /\ ret.hourly_forecast[2].datetime = "2025-12-30T18:00:00"

\* the positions of the record-shaped elements of the search response
RecordsAt ==
    IF call.body.kind = "list"
    THEN {i \in 1..Len(call.body.items) : call.body.items[i].rec}
    ELSE {}

\* C25: every search_location result has the keys locations, count and
\* query, and count is the number of locations; an answered search returns
\* one location per record-shaped element of the response list, in order,
\* and an element whose coord is {lat, lon} or [lat, lon] gets that
\* latitude and longitude.
C25_SearchResult ==
    ret.fn = "search_location" =>
        /\ {"locations", "count", "query"} \subseteq ret.keys
        /\ ret.count = Len(ret.locations)
        /\ (call.loaded /\ call.tokenOk /\ call.body.kind # "error") =>
              /\ Len(ret.locations) = Cardinality(RecordsAt)
              /\ \A i \in RecordsAt :
                    LET l == ret.locations[Cardinality({j \in RecordsAt : j <= i})]
                        c == call.body.items[i].coord
                    IN  /\ l.id = call.body.items[i].id
                        /\ (c.kind = "dict" \/ (c.kind = "list" /\ Len(c.items) = 2))
                              => l.latitude = -34 /\ l.longitude = -58

\* a step of a get_alerts_for_location or search_location call
ServiceStep == pc["svc"] # pc'["svc"]

\* C26: no step of a service call changes a snapshot field or the cached
\* location id; a call that ends lets no exception out, and when its token
\* request or its GET failed it returns the empty default with an error
\* field.
C26_ServicesIsolated ==
    [][ServiceStep =>
        /\ data' = data /\ location_id' = location_id
        /\ pc'["svc"] = "idle" =>
              /\ escaped'["svc"] = "none"
              /\ pc["svc"] = "tok" => ret'.raised = "UpdateFailed"
              /\ ret'.raised # "none" => ret'.error /\ ret'.default
              /\ ret'.raised = "none" => ~ret'.error
      ]_vars

\* C26 witness: a cycle has stored alerts and weather, and a service call
\* made afterwards has ended with an error result.
C26_Witness ==
    /\ data["alerts"] = OLD /\ data["current_weather_data"] = OLD
    /\ location_id \in {"4864", "4865"}
    /\ pc["svc"] = "idle" /\ ret = service_returns("ClientError")

\* C27: a payload object with a numeric exp, encoded as base64url without its
\* '=' padding as the middle of three segments, is what _decode_jwt_payload
\* returns, and fetch_token then stores an expiry equal to that exp
C27_StoresExp ==
    ret.fn = "fetch_token" =>
        /\ ret.payload = DictOf(call.members)
        /\ ret.expiry_stored
        /\ ret.expiration = DictOf(call.members)[ExpKey]

\* a step of the flow that handled a user's submission
Submitted == flow' # flow /\ flow'.input # <<>>

NoTwoNear(es) == \A a \in es : \A b \in es : Near(a, b) => a = b

\* C28: a submission whose coordinates match an existing entry (latitude and
\* longitude both within the tolerance) aborts with already_configured and
\* creates no entry, and no two entries ever lie within the tolerance of each
\* other
C28_DuplicateAborts ==
    [][Submitted =>
        /\ (\E e \in entries : Near(e, flow'.input)) =>
              /\ flow'.type = "abort"
              /\ flow'.errors = "already_configured"
              /\ entries' = entries
        /\ NoTwoNear(entries')
      ]_vars

\* C29: when the location lookup at the SMN site fails for a submission
\* (valid coordinates, matching no entry), no entry is created and the form
\* is shown again with the error cannot_connect
C29_LookupFailureShowsForm ==
    [][(/\ Submitted
        /\ flow'.lookup = "fails"
        /\ async_validate_location(flow'.input[1], flow'.input[2]) = "none"
        /\ async_check_unique_id(entries, flow'.input[1], flow'.input[2])) =>
        /\ flow'.type = "form"
        /\ flow'.errors = "cannot_connect"
        /\ entries' = entries
      ]_vars

\* the text a condition describes the weather with: the text itself or the
\* description of the record
DescriptionOf(c) ==
    CASE c.kind = "str" -> c.text
      [] c.kind = "dict" /\ "description" \in c.keys -> c.description
      [] OTHER -> <<>>

Recognised(t) ==
    \E i \in DOMAIN CONDITIONS_MAP : \E j \in DOMAIN CONDITIONS_MAP[i][2] :
        Contains(Lower(t), Lower(CONDITIONS_MAP[i][2][j]))

\* C30: format_condition never raises; a missing, empty or unrecognised
\* condition, given as text or as a record, and the condition "Despejado" map
\* to sunny while the sun is up and to clear-night while it is down
C30_FormatConditionTotal ==
    ret.fn = "format_condition" =>
        /\ ret.raised = "none"
        /\ (\/ ~Recognised(DescriptionOf(call.condition))
            \/ DescriptionOf(call.condition) = Despejado) =>
              ret.value = DefaultCondition(call.sun_is_up)

\* task p's fetch_token raises in this step
FetchFails(p) ==
    /\ pc[p] = "tok" /\ pc'[p] = "idle"
    /\ p \in TimerTasks => refreshLog' = "failed"

\* C31: a failing fetch_token leaves the stored token and expiry as they
\* were and raises UpdateFailed; the call issues no second request, and
\* get_token hands no token to its caller, the stored one included
C31_FetchFailureKeepsToken ==
    [][\A p \in Procs : FetchFails(p) =>
          /\ token' = token
          /\ token_expiration' = token_expiration
          /\ got'[p] = "none"
          /\ p = "svc" => ret'.raised = "UpdateFailed"
          /\ (p \in Runners /\ stage[p] # "heat") =>
                escaped'[p] = "UpdateFailed"
      ]_vars

C31_Witness ==
    /\ pc["svc"] = "idle" /\ ret = service_returns("UpdateFailed")
    /\ token.set /\ token_expiration # None
    /\ ~TokenValid(token, token_expiration, now)

\* C33: at most one request to the token page is in flight at any time,
\* whichever tasks call get_token or fetch_token
C33_OneTokenFetch ==
    Cardinality({p \in Procs : pc[p] = "tok"}) <= 1

\* C35: the stored expiry is the exp claim of the stored token, or null
\* when that token has none (or no token is stored)
C35_ExpiryOfStoredToken ==
    /\ token.set => token_expiration = token.exp
    /\ ~token.set => token_expiration = None

\* the values a lookup response carries under "id" or "location_id"
ResponseIds ==
    UNION {{LocBody(o).id, LocBody(o).location_id} : o \in Outcomes("loc")}
    \ {""}

\* C36: a cached location id is the string form of an "id" or "location_id"
\* value of a lookup response; a response with neither key caches nothing,
\* in particular not the string "None"
C36_CachedIdFromResponse ==
    location_id # NoLocation => location_id \in ResponseIds

\* task r's cycle ends successfully in this step on an alert response that
\* was stored and names no area: a list, or an object without area_id
EndsWithoutArea(r) ==
    /\ result[r] = "running" /\ result'[r] = "ok"
    /\ last' = [r |-> r, s |-> "alerts", o |-> last'.o]
    /\ AlertBody(last'.o).kind \in {"list", "object"}
    /\ AlertBody(last'.o).area_id = None

\* C37: after a successful cycle whose alert response is a list or carries no
\* area_id, heat_warnings holds no warnings fetched in an earlier cycle
C37_HeatFollowsAlerts ==
    [][\A r \in Runners :
          EndsWithoutArea(r) => data'["heat_warnings"] = EMPTY]_vars

\* C38: in every result of _parse_alerts, max_severity is "info" exactly when
\* active_alerts is empty
C38_InfoIffNoAlerts ==
    parsed # Unparsed =>
        (parsed.max_severity = "info" <=> parsed.active_alerts = <<>>)

\* C34: for a forecast response of the fixture's shape, an object whose
\* forecast key holds the list of days, the stage leaves one daily_forecast
\* entry per day and one hourly_forecast entry per populated day-part
C34_FixtureShapeExpands ==
    (ret.fn = "forecast_stage" /\ call.shape = "object") =>
        /\ Len(ret.daily_forecast) = Len(call.arg)
        /\ Len(ret.hourly_forecast) = Cardinality(Slots({"data"}))

\* C39: with the sun up, every text listed in CONDITIONS_MAP maps to the
\* condition it is listed under
C39_KeywordsMapToOwnCondition ==
    (/\ ret.fn = "format_condition"
     /\ call.condition.kind = "str"
     /\ call.sun_is_up) =>
        \A i \in DOMAIN CONDITIONS_MAP :
            call.condition.text \in
                {CONDITIONS_MAP[i][2][j] : j \in DOMAIN CONDITIONS_MAP[i][2]}
            => ret.value = CONDITIONS_MAP[i][1]


\* a timer comes due and its callback starts
Fires == \E p \in TimerTasks : pc[p] = "idle" /\ pc'[p] = "tok"

\* C32: at every moment at most one proactive-refresh timer is pending,
\* whatever the interleaving of cycles ending, timers firing and callbacks
\* suspended inside fetch_token; and no expiry makes the callback fire twice:
\* a timer is only ever armed for a later instant, and once the timer of an
\* instant has fired none is left pending for that instant.
C32_OneTimerPending ==
    /\ [](BagCardinality(timers) <= 1)
    /\ [][/\ \A t \in BagToSet(timers') :
               CopiesIn(t, timers') > CopiesIn(t, timers) => t > now
          /\ Fires => ~BagIn(now, timers')
         ]_vars

\* a callback that was suspended in fetch_token while a cycle armed a timer
\* has returned and rescheduled: one timer is pending
C32_Witness ==
    /\ refreshLog = "ok"
    /\ BagCardinality(timers) = 1
    /\ \E r \in Runners : result[r] = "ok"
    /\ \E p \in TimerTasks : pc[p] = "tok"

====
